---- MODULE Spec2Model ----
(***************************************************************************)
(* A model of the gyeongdohalsaram session server: one Room object with    *)
(* the Hub goroutine that runs every request handler, the room's gameLoop  *)
(* goroutines, and callers of the Room's exported operations.              *)
(*                                                                         *)
(* The specifications share the state and the actions.  The main three:    *)
(*   Spec      the lobby, from the construction of the server: connections *)
(*             register, create and join the room, pick teams, ready up,   *)
(*             leave and disconnect; the games the handlers start run      *)
(*             their loops;                                                *)
(*   SpecRoom  the Room's exported lifecycle operations called directly on *)
(*             a room of two players, next to the loops they start;        *)
(*   SpecTick  a game in progress: the ticks of its loop, the movement     *)
(*             requests of its players, the wall clock.                    *)
(* The others follow one part of the server each: SpecReady and SpecTeams  *)
(* the lobby's ready and team rules, SpecSend a broadcast send by send,    *)
(* SpecSnap a game with its clients' queues, SpecHub the Hub's register    *)
(* and unregister cases, SpecMove movement requests, SpecDir and SpecSeats *)
(* the directory of rooms, SpecAuth the router with authentication,        *)
(* SpecArrests game.ProcessArrests called on its own, SpecConn the         *)
(* connections' pumps and the Hub's three channels, SpecLocks the locks of *)
(* a game in progress, SpecOver a game whose tick broadcasts in a step of  *)
(* its own next to StopGame calls from outside.                            *)
(*                                                                         *)
(* Time is counted in ticks (TickInterval = 1/TickRate s).  The gauges are *)
(* float64 sums of dt = 0.05 in the source; the sum of n such terms first  *)
(* reaches 1.5 at n = 30 and 2.0 at n = 40, so a gauge is modelled by the  *)
(* number of dt terms added to it.  The durations are scaled down to the   *)
(* bounds ArrestTicks, RescueTicks, GameTicks and TicksLeft.               *)
(***************************************************************************)
EXTENDS Integers, FiniteSets, Sequences, TLC

\* ---- bounds of the model ------------------------------------------------
MaxClients == 4      \* connections
MaxIds == 4          \* player ids (uuid.New)
MaxConns == 2        \* connections that register over a lobby run
MaxJoins == 2        \* player ids handed out over a lobby run
MaxGames == 2        \* PrepareGame calls (stop channels made) over a run
GameTicks == 1       \* GameDuration / TickInterval, scaled down
TicksLeft == 3       \* remainingTime / TickInterval of a game in progress
MaxMovers == 2       \* connections that send movement requests in a game
ArrestTicks == 2     \* ArrestDuration / dt, scaled down
RescueTicks == 2     \* RescueDuration / dt, scaled down
MaxNow == 3          \* last instant of the wall clock
ClockStepTicks == 64 \* ticks between two instants of the wall clock
MaxRooms == 2        \* rooms of the directory
MaxDirClients == 2   \* connections that create, join and leave rooms
MaxDirIds == 10      \* player ids handed out over a directory run
Seated == 6          \* players a room of the directory holds at the start
SendCap == 2         \* capacity of Client.Send (256), scaled down
MaxTeam == 3         \* players of a room picking teams
MaxRetries == 2      \* maxRetries of GenerateCode (100), scaled down
MaxAccounts == 2     \* accounts of the store
IncomingCap == 2     \* capacity of Hub.Incoming (256), scaled down

\* ---- program constants --------------------------------------------------
MapWidth == 3240
MapHeight == 5760
MinPlayers == 2
MaxPlayers == 8
MaxPolice == 2
MoveSpeed == 400
PlayerRadius == 50
ArrestRange == 100
JailRange == 150
TickRate == 20
MinSpawnDistance == 200
JailX == MapWidth \div 2
JailY == (MapHeight * 8) \div 10

Clients == 1..MaxClients
LobbyClients == 1..MaxConns
Movers == {c \in Clients : c > MaxClients - MaxMovers}
Ids == 1..MaxIds
Chans == 1..MaxGames
Loops == 1..MaxGames
HubTask == MaxGames + 1
ExtTask == MaxGames + 2
Tasks == Loops \cup {HubTask, ExtTask}
Codes == 1..MaxRooms
DirClients == 1..MaxDirClients
DirIds == 1..MaxDirIds

\* ---- positions ----------------------------------------------------------
Pos(x, y) == [x |-> x, y |-> y]
Origin == Pos(0, 0)
PoliceSpawn == Pos(JailX, 2680)
PolicePost == Pos(JailX, 4300)
NearJail == Pos(JailX, 4370)
OutOfJail == Pos(JailX, 4448)
InJail == Pos(JailX, 4470)
FarAway == Pos(JailX, 5500)

\* The positions a move request may name.
MoveRequests == {NearJail, OutOfJail, InJail}

\* The positions rand.Float64 may yield for a spawn, cut down to the grid.
SpawnGrid == {PoliceSpawn, FarAway}

\* ---- package game -------------------------------------------------------
NewPlayer ==
  [Role |-> "none", State |-> "free", X |-> 0, Y |-> 0, Ready |-> FALSE,
   LastMoveTime |-> 0, ArrestGauge |-> 0, RescueGauge |-> 0,
   InvincibleTimer |-> 0]

IsArrested(p) == p.State = "arrested"
IsFree(p) == p.State = "free"
IsInvincible(p) == p.State = "invincible"

Arrest(p) == [p EXCEPT !.State = "arrested"]
Release(p) == [p EXCEPT !.State = "free"]
PlayerReset(p) ==
  [p EXCEPT !.State = "free", !.Ready = FALSE, !.X = 0, !.Y = 0,
            !.LastMoveTime = 0]

\* Distance is compared with a range only; the square is compared instead.
DistanceSq(x1, y1, x2, y2) == (x1 - x2) * (x1 - x2) + (y1 - y2) * (y1 - y2)
InArrestRange(police, thief) ==
  DistanceSq(police.X, police.Y, thief.X, thief.Y) <= ArrestRange * ArrestRange
InJailRange(thief, jailX, jailY) ==
  DistanceSq(thief.X, thief.Y, jailX, jailY) <= JailRange * JailRange

\* A variant of ClampCoord that has no lower bound.
ClampCoordBelow(v, lo, hi) == IF v > hi THEN hi ELSE v

ClampCoord(v, lo, hi) == IF v < lo THEN lo ELSE IF v > hi THEN hi ELSE v
ClampPosition(q) ==
  Pos(ClampCoord(q.x, PlayerRadius, MapWidth - PlayerRadius),
      ClampCoord(q.y, PlayerRadius, MapHeight - PlayerRadius))

\* The [police, thief] pairs, over the objects obj of the ids in list.
FindArrestPairs(obj, list) ==
  {pr \in list \X list :
     /\ obj[pr[1]].Role = "police"
     /\ obj[pr[2]].Role = "thief" /\ IsFree(obj[pr[2]])
     /\ InArrestRange(obj[pr[1]], obj[pr[2]])}

FindJailRescueCandidates(obj, list, jailX, jailY) ==
  {i \in list : /\ obj[i].Role = "thief" /\ IsFree(obj[i])
                /\ InJailRange(obj[i], jailX, jailY)}

CheckPoliceWin(obj, list) ==
  LET thieves == {i \in list : obj[i].Role = "thief"}
      arrested == {i \in thieves : IsArrested(obj[i])}
  IN  Cardinality(thieves) > 0 /\ Cardinality(thieves) = Cardinality(arrested)

\* The zone GenerateSpawnPositions draws a player's position from.
SpawnZone(role) ==
  LET minY == IF role = "police" THEN 0 ELSE MapHeight \div 2
      maxY == IF role = "police" THEN MapHeight \div 2 ELSE MapHeight
  IN  {q \in SpawnGrid :
         /\ q.x >= MinSpawnDistance /\ q.x <= MapWidth - MinSpawnDistance
         /\ q.y >= minY + MinSpawnDistance /\ q.y <= maxY - MinSpawnDistance}

\* ---- state --------------------------------------------------------------
VARIABLES
  created,        \* Manager.CreateRoom has constructed the room
  inDir,          \* Manager.rooms holds the room
  State,          \* Room.State
  Players,        \* the keys of Room.Players
  clients,        \* Room.clients: player id -> client
  HostID,         \* Room.HostID (0: empty string)
  stopCh,         \* Room.stopCh: the channel made last (0: nil)
  remainingTime,  \* Room.remainingTime, in ticks
  obj,            \* the Player objects, by id
  closeCount,     \* per stop channel, the close calls made on it
  playerMap,      \* Router.playerMap: client -> player id (0: absent)
  conn,           \* per client: "new", "live" (registered), "gone"
  hubClients,     \* Hub.Clients
  sendClosed,     \* the clients whose Send channel is closed
  hpc, hcur, hfound,  \* the Hub goroutine: position, request, Find's result
  lpc, ltimer, llist,  \* the gameLoop goroutines: position, timerExpired, playerList
  holds,          \* per task, the locks it holds
  now,            \* the wall clock
  nextId,         \* the next player id
  crashed,        \* a goroutine panicked
  endedCount,     \* per stop channel, the Playing->Ended transitions
  gameOverCount,  \* per stop channel, the game_over broadcasts
  lastWinner,     \* the result of the StopGame call that ended a game last
  lastWrite,      \* the last write to room state: "locked", or the unlocked writer
  lastTick,       \* what the last tick did
  lastOut,        \* what the last request handler returned, replied and broadcast
  sendQ,          \* per client, the messages buffered in Client.Send
  bmsg, btodo,    \* the broadcast in progress: its message, the clients left
  lastSend,       \* what the last SendMessage did
  rooms,          \* Manager.rooms, by code: membership of every room
  dirMap,         \* Router.playerMap over those rooms
  dirNext,        \* the next player id of those rooms
  Authenticated,  \* per client, Client.Authenticated
  AccountID,      \* per client, Client.AccountID (0: empty string)
  rpc,            \* per client, its ReadPump: "read", "unregister", "done"
  wpc,            \* per client, its WritePump: "run", "closed", "failed"
  incoming        \* Hub.Incoming: the frames buffered, oldest first

roomVars == <<created, inDir, State, Players, clients, HostID, stopCh,
              remainingTime, obj, closeCount>>
hubVars == <<playerMap, conn, hubClients, sendClosed, hpc, hcur, hfound>>
loopVars == <<lpc, ltimer, llist>>
histVars == <<endedCount, gameOverCount, lastWinner, lastWrite, lastTick,
              lastOut>>
sendVars == <<sendQ, bmsg, btodo, lastSend>>
dirVars == <<rooms, dirMap, dirNext>>
authVars == <<Authenticated, AccountID>>
pumpVars == <<rpc, wpc, incoming>>
connVars == <<authVars, pumpVars>>
sideVars == <<sendVars, dirVars, connVars>>
vars == <<roomVars, hubVars, loopVars, holds, now, sideVars, nextId, crashed,
          histVars>>

NoRequest == [op |-> "none", c |-> 0]

\* What a request handler or a direct call did: the value
\* Room.SetPlayerReady or Room.AddPlayer returned, the message the handler
\* sent to its client and the last message it broadcast to the room ("none":
\* nothing).
OutOf(op, arg, ret, reply, bcast) ==
  [op |-> op, arg |-> arg, ret |-> ret, reply |-> reply, bcast |-> bcast]
Out(op, ret, reply, bcast) == OutOf(op, "none", ret, reply, bcast)
NoOut == Out("none", "none", "none", "none")
NoSend == [c |-> 0, sent |-> FALSE]
NoRoom == [in |-> FALSE, Players |-> {}, clients |-> [i \in {} |-> 0],
           HostID |-> 0]

\* No broadcast is in progress and every Send buffer is empty.
SendIdle ==
  /\ sendQ = [c \in Clients |-> <<>>]
  /\ bmsg = "none" /\ btodo = {} /\ lastSend = NoSend

\* NewManager, NewRouter: no room, no player.
DirIdle ==
  /\ rooms = [k \in Codes |-> NoRoom]
  /\ dirMap = [c \in DirClients |-> 0]
  /\ dirNext = 1

\* Authentication is behind: every connection carries an account.
AuthIdle ==
  /\ Authenticated = [c \in Clients |-> TRUE]
  /\ AccountID = [c \in Clients |-> 1]

\* Every ReadPump is reading, every WritePump running, no frame is buffered.
PumpIdle ==
  /\ rpc = [c \in Clients |-> "read"]
  /\ wpc = [c \in Clients |-> "run"]
  /\ incoming = <<>>

NoTick == [list |-> {}, chased |-> {}, credit |-> [i \in Ids |-> 0],
           arrested |-> {}, rescuing |-> {}, completed |-> {},
           released |-> {}, reset |-> {}, streak |-> [i \in Ids |-> 0]]

\* NewRoom, NewManager, NewHub, NewRouter: nothing exists yet.
Init ==
  /\ created = FALSE /\ inDir = FALSE
  /\ State = "waiting" /\ Players = {} /\ clients = [i \in Ids |-> 0]
  /\ HostID = 0 /\ stopCh = 0 /\ remainingTime = 0
  /\ obj = [i \in Ids |-> NewPlayer]
  /\ closeCount = [ch \in Chans |-> 0]
  /\ playerMap = [c \in Clients |-> 0]
  /\ conn = [c \in Clients |-> "new"]
  /\ hubClients = {} /\ sendClosed = {}
  /\ hpc = "idle" /\ hcur = NoRequest /\ hfound = FALSE
  /\ lpc = [l \in Loops |-> "off"]
  /\ ltimer = [l \in Loops |-> FALSE] /\ llist = [l \in Loops |-> {}]
  /\ holds = [t \in Tasks |-> {}]
  /\ now = 1 /\ nextId = 1 /\ crashed = FALSE
  /\ endedCount = [ch \in Chans |-> 0]
  /\ gameOverCount = [ch \in Chans |-> 0]
  /\ lastWinner = "none"
  /\ lastWrite = "none"
  /\ lastTick = NoTick
  /\ lastOut = NoOut
  /\ AuthIdle /\ PumpIdle /\ SendIdle /\ DirIdle

\* ---- sync.RWMutex -------------------------------------------------------
\* A variant of CanLock that also waits for the gameLoop goroutines to
\* return.
CanLockLoopsExited(t) ==
  /\ \A u \in Tasks : holds[u] \cap {"room.w", "room.r"} = {}
  /\ \A l \in Loops : lpc[l] \in {"off", "done"}

\* Room.mu.Lock returns for task t.
CanLock(t) == \A u \in Tasks : holds[u] \cap {"room.w", "room.r"} = {}
\* Room.mu.RLock returns for task t.
CanRLock(t) == \A u \in Tasks \ {t} : "room.w" \notin holds[u]
\* Does task t hold the room's write lock?
HoldsWrite(t) == "room.w" \in holds[t]

\* ---- Room ---------------------------------------------------------------
PoliceCount == Cardinality({i \in Players : obj[i].Role = "police"})
\* A variant of CanSelectRole without the limit.
CanSelectAnyRole(role) == TRUE

CanSelectRole(role) == IF role = "police" THEN PoliceCount < MaxPolice ELSE TRUE

\* A variant of allReady without the team composition check.
allReadyAnyTeams(o, ps) ==
  /\ Cardinality(ps) >= MinPlayers
  /\ \A i \in ps : o[i].Ready /\ o[i].Role # "none"

\* allReady over the objects o of the players ps.
allReady(o, ps) ==
  /\ Cardinality(ps) >= MinPlayers
  /\ \A i \in ps : o[i].Ready /\ o[i].Role # "none"
  /\ Cardinality({i \in ps : o[i].Role = "police"}) >= 1
  /\ Cardinality({i \in ps : o[i].Role = "thief"}) >= 1

\* BroadcastMessage: a send on a closed Send channel panics.
BroadcastPanics(ps, cl) == \E i \in ps : cl[i] \in sendClosed

\* ---- gameLoop: one tick's mechanics, on the objects o of playerList -----
\* Invincibility timer.
AfterInvincibility(o, list) ==
  [i \in Ids |->
     IF i \in list /\ IsInvincible(o[i])
     THEN IF o[i].InvincibleTimer - 1 <= 0
          THEN [o[i] EXCEPT !.State = "free", !.InvincibleTimer = 0]
          ELSE [o[i] EXCEPT !.InvincibleTimer = @ - 1]
     ELSE o[i]]

\* The dt terms the loop over arrestPairs adds to thief i: one per pair.
ArrestCredit(o, list, i) ==
  Cardinality({pr \in FindArrestPairs(o, list) : pr[2] = i})

\* A variant of the arrest mechanics whose gauge decays: a thief in no pair
\* loses its gauge.
AfterArrestsDecaying(o, list) ==
  [i \in Ids |->
     IF ArrestCredit(o, list, i) > 0
     THEN LET p == [o[i] EXCEPT !.ArrestGauge = @ + ArrestCredit(o, list, i)]
          IN  IF p.ArrestGauge >= ArrestTicks THEN Arrest(p) ELSE p
     ELSE IF i \in list /\ o[i].Role = "thief"
          THEN [o[i] EXCEPT !.ArrestGauge = 0]
          ELSE o[i]]

\* Arrest mechanics (cumulative gauge).
AfterArrests(o, list) ==
  [i \in Ids |->
     IF ArrestCredit(o, list, i) > 0
     THEN LET p == [o[i] EXCEPT !.ArrestGauge = @ + ArrestCredit(o, list, i)]
          IN  IF p.ArrestGauge >= ArrestTicks THEN Arrest(p) ELSE p
     ELSE o[i]]

\* The rescue candidates whose gauge reaches RescueDuration in this tick.
RescueCompleted(o, list) ==
  {i \in FindJailRescueCandidates(o, list, JailX, JailY) :
     o[i].RescueGauge + 1 >= RescueTicks}

\* A variant of the rescue mechanics that releases as soon as a candidate
\* stands in range.
AfterRescuesEager(o, list) ==
  [i \in Ids |->
     IF i \in FindJailRescueCandidates(o, list, JailX, JailY)
     THEN [o[i] EXCEPT !.RescueGauge =
                         IF i \in RescueCompleted(o, list) THEN 0 ELSE @ + 1]
     ELSE IF /\ FindJailRescueCandidates(o, list, JailX, JailY) # {}
             /\ i \in list /\ o[i].Role = "thief" /\ IsArrested(o[i])
          THEN Release(o[i])
          ELSE o[i]]

\* A variant of the rescue mechanics that releases one arrested thief only.
AfterRescuesOne(o, list) ==
  LET arrested == {i \in list : o[i].Role = "thief" /\ IsArrested(o[i])}
  IN  [i \in Ids |->
         IF i \in FindJailRescueCandidates(o, list, JailX, JailY)
         THEN [o[i] EXCEPT !.RescueGauge =
                             IF i \in RescueCompleted(o, list) THEN 0 ELSE @ + 1]
         ELSE IF /\ RescueCompleted(o, list) # {}
                 /\ i \in arrested /\ \A j \in arrested : i <= j
              THEN Release(o[i])
              ELSE o[i]]

\* Rescue mechanics (continuous gauge).
AfterRescues(o, list) ==
  [i \in Ids |->
     IF i \in FindJailRescueCandidates(o, list, JailX, JailY)
     THEN [o[i] EXCEPT !.RescueGauge =
                         IF i \in RescueCompleted(o, list) THEN 0 ELSE @ + 1]
     ELSE IF /\ RescueCompleted(o, list) # {}
             /\ i \in list /\ o[i].Role = "thief" /\ IsArrested(o[i])
          THEN Release(o[i])
          ELSE o[i]]

\* A variant of the rescue mechanics whose gauge is cumulative: no reset.
NoGaugeReset(o, list, rescuing) == o

\* Reset rescue gauge for thieves NOT near jail; rescuing are the candidates.
AfterGaugeReset(o, list, rescuing) ==
  [i \in Ids |->
     IF i \in list /\ o[i].Role = "thief" /\ IsFree(o[i]) /\ i \notin rescuing
     THEN [o[i] EXCEPT !.RescueGauge = 0]
     ELSE o[i]]

\* What a tick did, for the properties: o1, o2 and o3 are the objects after
\* the invincibility timers, after the arrests and after the rescues, prev
\* is the record of the tick before.  reset are the thieves whose rescue gauge
\* the tick's last loop zeroes; streak counts a thief's latest ticks
\* in a row as a rescue candidate, from its last completed rescue on.
TickRecord(o1, o2, o3, list, prev) ==
  [list |-> list,
   chased |-> {i \in list : ArrestCredit(o1, list, i) > 0},
   credit |-> [i \in Ids |-> ArrestCredit(o1, list, i)],
   arrested |-> {i \in list : ~IsArrested(o1[i]) /\ IsArrested(o2[i])},
   rescuing |-> FindJailRescueCandidates(o2, list, JailX, JailY),
   completed |-> RescueCompleted(o2, list),
   released |-> {i \in list : IsArrested(o2[i]) /\ ~IsArrested(o3[i])},
   reset |-> {i \in list :
                /\ o3[i].Role = "thief" /\ IsFree(o3[i]) /\ o3[i].RescueGauge > 0
                /\ i \notin FindJailRescueCandidates(o2, list, JailX, JailY)},
   streak |-> [i \in Ids |->
                 IF i \in FindJailRescueCandidates(o2, list, JailX, JailY)
                 THEN IF i \in prev.completed THEN 1 ELSE prev.streak[i] + 1
                 ELSE 0]]

\* The critical section of a tick, from the invincibility timers on.
Mechanics(list) ==
  \E o1 \in {AfterInvincibility(obj, list)} :
  \E o2 \in {AfterArrests(o1, list)} :
  \E o3 \in {AfterRescues(o2, list)} :
    /\ obj' = AfterGaugeReset(o3, list,
                FindJailRescueCandidates(o2, list, JailX, JailY))
    /\ lastTick' = TickRecord(o1, o2, o3, list, lastTick)

\* ---- Room.StopGame ------------------------------------------------------
\* A variant of StopGame without the state check.
AlwaysProceeds == TRUE

\* StopGame goes on past its state check.
StopGameProceeds == State = "playing"

\* StopGame(result) called by task t: the critical section, then the
\* game_over broadcast.  close of a nil channel and a send on a closed
\* channel panic.
StopGame(t, result) ==
  IF ~StopGameProceeds
  THEN UNCHANGED <<State, closeCount, endedCount, gameOverCount, lastWinner,
                   lastWrite, crashed>>
  ELSE /\ State' = "ended"
       /\ lastWrite' = "locked"
       /\ lastWinner' = result
       /\ IF stopCh = 0
          THEN /\ crashed' = TRUE
               /\ UNCHANGED <<closeCount, endedCount, gameOverCount>>
          ELSE /\ endedCount' = [endedCount EXCEPT ![stopCh] = @ + 1]
               /\ closeCount' = IF closeCount[stopCh] > 0
                                THEN closeCount
                                ELSE [closeCount EXCEPT ![stopCh] = @ + 1]
               /\ crashed' = BroadcastPanics(Players, clients)
               /\ gameOverCount' = IF BroadcastPanics(Players, clients)
                                   THEN gameOverCount
                                   ELSE [gameOverCount EXCEPT ![stopCh] = @ + 1]

\* StopGame called by a task other than a gameLoop, but for what its
\* broadcast leaves in the clients' queues.
StopGameCallCore(result) ==
  /\ ~crashed /\ created /\ CanLock(ExtTask)
  /\ StopGame(ExtTask, result)
  /\ UNCHANGED <<created, inDir, Players, clients, HostID, stopCh,
                 remainingTime, obj, hubVars, loopVars, holds, now, nextId,
                 lastTick, lastOut>>

\* StopGame called by a task other than a gameLoop.
StopGameCall(result) == StopGameCallCore(result) /\ UNCHANGED sideVars

\* ---- Room.Reset ---------------------------------------------------------
ResetCall ==
  /\ ~crashed /\ created /\ CanLock(ExtTask)
  /\ State' = "waiting"
  /\ obj' = [i \in Ids |-> IF i \in Players THEN PlayerReset(obj[i]) ELSE obj[i]]
  /\ lastWrite' = "locked"
  /\ UNCHANGED <<created, inDir, Players, clients, HostID, stopCh,
                 remainingTime, closeCount, hubVars, loopVars, holds,
                 now, sideVars, nextId, crashed, endedCount, gameOverCount, lastWinner,
                 lastTick, lastOut>>

\* ---- Room.gameLoop ------------------------------------------------------
\* The stop channels a gameLoop's select may see in r.stopCh: the field is
\* read without the lock, so the read may be stale after a PrepareGame.
SeenStopCh(l) == {l, stopCh} \ {0}

\* select: case <-r.stopCh.
LoopStop(l) ==
  /\ ~crashed /\ lpc[l] = "select"
  /\ \E ch \in SeenStopCh(l) : closeCount[ch] > 0
  /\ lpc' = [lpc EXCEPT ![l] = "done"]
  /\ UNCHANGED <<roomVars, hubVars, ltimer, llist, holds, now, sideVars, nextId,
                 crashed, histVars>>

\* select: case <-ticker.C, up to r.mu.Lock.
TickLock(l) ==
  /\ ~crashed /\ lpc[l] = "select" /\ CanLock(l)
  /\ lpc' = [lpc EXCEPT ![l] = "locked"]
  /\ holds' = [holds EXCEPT ![l] = {"room.w"}]
  /\ UNCHANGED <<roomVars, hubVars, ltimer, llist, now, sideVars, nextId, crashed,
                 histVars>>

\* A variant of TimerExpired that waits for the time to fall below zero.
TimerExpiredLate(t) == t < 0

\* timerExpired := r.remainingTime <= 0, taken after the countdown.
TimerExpired(t) == t <= 0

\* The tick's critical section and r.mu.Unlock: the ticker case of gameLoop
\* from the countdown to the unlock.  The loop goes on at pc; panics tells
\* whether a send that follows in the same step panics.
TickSectionAt(l, pc, panics) ==
  /\ ~crashed /\ lpc[l] = "locked"
  /\ remainingTime' = remainingTime - 1
  /\ ltimer' = [ltimer EXCEPT ![l] = TimerExpired(remainingTime - 1)]
  /\ llist' = [llist EXCEPT ![l] = Players]
  /\ Mechanics(Players)
  /\ lastWrite' = IF HoldsWrite(l) THEN "locked" ELSE "gameLoop"
  /\ holds' = [holds EXCEPT ![l] = {}]
  /\ lpc' = [lpc EXCEPT ![l] = pc]
  /\ crashed' = panics
  /\ UNCHANGED <<created, inDir, State, Players, clients, HostID, stopCh,
                 closeCount, hubVars, now, nextId, endedCount,
                 gameOverCount, lastWinner, lastOut>>

\* The tick's critical section, r.mu.Unlock and the game_state broadcast.
\* The ticker case of gameLoop from the countdown to the broadcast of the
\* snapshot, but for what the broadcast leaves in the clients' queues.
TickBodyCore(l) ==
  TickSectionAt(l, "check", BroadcastPanics(Players, clients))

TickBody(l) == TickBodyCore(l) /\ UNCHANGED sideVars

\* A variant of Enqueued that puts the message at the head of the queue.
EnqueuedAtHead(q, msg) == IF Len(q) < SendCap THEN <<msg>> \o q ELSE q

\* SendMessage(msg) on the queue q of a client: the queue after the call.
Enqueued(q, msg) == IF Len(q) < SendCap THEN Append(q, msg) ELSE q

\* BroadcastMessage(msg) to the clients cs: the queues after the call.
BroadcastTo(cs, msg) ==
  [c \in Clients |-> IF c \in cs THEN Enqueued(sendQ[c], msg) ELSE sendQ[c]]

\* The clients of the room's players.
RoomClients == {clients[i] : i \in Players} \ {0}

\* gameStateMessage: remaining = r.remainingTime.Seconds(), zero if negative.
GameStateMsg(t) ==
  [type |-> "game_state", remaining |-> IF t < 0 THEN 0 ELSE t,
   winner |-> "none"]

\* gameOverMessage{Winner: result.String()}.
GameOverMsg(result) == [type |-> "game_over", remaining |-> 0, winner |-> result]

\* The ticker case with the queues: the snapshot is sent to every client.
TickBodySend(l) ==
  /\ TickBodyCore(l)
  /\ sendQ' = IF crashed' THEN sendQ
              ELSE BroadcastTo(RoomClients, GameStateMsg(remainingTime'))
  /\ UNCHANGED <<bmsg, btodo, lastSend, dirVars, connVars>>

\* A variant of the win check that looks at the timer first.
WinCheckTimerFirst(l) ==
  IF ltimer[l] THEN "thief"
  ELSE IF CheckPoliceWin(obj, llist[l]) THEN "police" ELSE "none"

\* The result the tick's win check passes to StopGame ("none": no call).
WinCheck(l) ==
  IF CheckPoliceWin(obj, llist[l]) THEN "police"
  ELSE IF ltimer[l] THEN "thief" ELSE "none"

\* The tick's win check, with the StopGame call it makes; after the call
\* the loop returns.
\* The win conditions of a tick, but for what StopGame's broadcast leaves in
\* the clients' queues.
TickCheckCore(l) ==
  /\ ~crashed /\ lpc[l] = "check"
  /\ IF WinCheck(l) = "none"
     THEN /\ lpc' = [lpc EXCEPT ![l] = "select"]
          /\ UNCHANGED <<State, closeCount, endedCount, gameOverCount,
                         lastWinner, lastWrite, crashed>>
     ELSE /\ CanLock(l)
          /\ StopGame(l, WinCheck(l))
          /\ lpc' = [lpc EXCEPT ![l] = "done"]
  /\ UNCHANGED <<created, inDir, Players, clients, HostID, stopCh,
                 remainingTime, obj, hubVars, ltimer, llist, holds,
                 now, nextId, lastTick, lastOut>>

TickCheck(l) == TickCheckCore(l) /\ UNCHANGED sideVars

\* The win conditions with the queues: a StopGame that proceeds sends
\* game_over to every client.
TickCheckSend(l) ==
  /\ TickCheckCore(l)
  /\ sendQ' = IF gameOverCount' # gameOverCount
              THEN BroadcastTo(RoomClients, GameOverMsg(WinCheck(l)))
              ELSE sendQ
  /\ UNCHANGED <<bmsg, btodo, lastSend, dirVars, connVars>>

\* ---- Room.PrepareGame / Room.StartGameLoop ------------------------------
\* The position assignments GenerateSpawnPositions can return for the
\* players ps with objects o: each in its role's half.  generatePosition
\* keeps MinSpawnDistance for maxAttempts draws and then falls back to any
\* position of the half.
SpawnAssignments(o, ps) ==
  {f \in [ps -> SpawnGrid] : \A i \in ps : f[i] \in SpawnZone(o[i].Role)}

\* PrepareGame on the objects o, with the spawn assignment f.
PrepareGame(o, f) ==
  /\ State' = "playing"
  /\ remainingTime' = GameTicks
  /\ stopCh' = stopCh + 1
  /\ obj' = [i \in Ids |-> IF i \in Players
                           THEN [o[i] EXCEPT !.X = f[i].x, !.Y = f[i].y]
                           ELSE o[i]]

\* StartGameLoop: go r.gameLoop(); the goroutine starts at its select.
StartGameLoop(l) ==
  /\ lpc' = [lpc EXCEPT ![l] = "select"]
  /\ UNCHANGED <<ltimer, llist>>

\* Room.StartGame, as HandlePlayerReady calls it: prepare, then start the loop.
StartGame(o) ==
  /\ stopCh < MaxGames
  /\ \E f \in SpawnAssignments(o, Players) : PrepareGame(o, f)
  /\ StartGameLoop(stopCh + 1)

\* ---- Hub.Run: register / unregister -------------------------------------
Register(c) ==
  /\ ~crashed /\ hpc = "idle" /\ conn[c] = "new"
  /\ conn' = [conn EXCEPT ![c] = "live"]
  /\ hubClients' = hubClients \cup {c}
  /\ UNCHANGED <<roomVars, playerMap, sendClosed, hpc, hcur, hfound, loopVars,
                 holds, now, sideVars, nextId, crashed, histVars>>

\* A handler's call of FindRoomByPlayerID, up to room.mu.RLock (up to the
\* end of the range over m.rooms when the directory is empty).
FindRoomEnter(op, c) ==
  /\ inDir => CanRLock(HubTask)
  /\ hpc' = "find_room"
  /\ hcur' = [op |-> op, c |-> c]
  /\ holds' = [holds EXCEPT ![HubTask] = IF inDir THEN {"mgr.r", "room.r"}
                                         ELSE {"mgr.r"}]

\* unregister: close(client.Send), then OnDisconnect up to the room lookup.
UnregisterCore(c) ==
  /\ ~crashed /\ hpc = "idle" /\ conn[c] = "live"
  /\ conn' = [conn EXCEPT ![c] = "gone"]
  /\ hubClients' = hubClients \ {c}
  /\ sendClosed' = IF c \in hubClients THEN sendClosed \cup {c} ELSE sendClosed
  /\ IF playerMap[c] = 0
     THEN UNCHANGED <<hpc, hcur, holds>>
     ELSE FindRoomEnter("disconnect", c)
  /\ UNCHANGED <<roomVars, playerMap, hfound, loopVars, now, nextId,
                 crashed, histVars>>

Unregister(c) == UnregisterCore(c) /\ UNCHANGED sideVars

\* ---- LobbyHandler -------------------------------------------------------
\* Room.AddPlayer of a fresh player id for client c.
AddPlayer(id, c) ==
  /\ Players' = Players \cup {id}
  /\ obj' = [obj EXCEPT ![id] = NewPlayer]
  /\ clients' = [clients EXCEPT ![id] = c]
  /\ HostID' = IF Players = {} THEN id ELSE HostID
  /\ lastWrite' = "locked"

HandleCreateRoom(c) ==
  /\ ~crashed /\ hpc = "idle" /\ conn[c] = "live"
  /\ ~created /\ nextId <= MaxJoins
  /\ created' = TRUE /\ inDir' = TRUE
  /\ AddPlayer(nextId, c)
  /\ playerMap' = [playerMap EXCEPT ![c] = nextId]
  /\ nextId' = nextId + 1
  /\ lastOut' = Out("create_room", "true", "create_room", "none")
  /\ UNCHANGED <<State, stopCh, remainingTime, closeCount, conn, hubClients,
                 sendClosed, hpc, hcur, hfound, loopVars, holds, now, sideVars,
                 crashed, endedCount, gameOverCount, lastWinner, lastTick>>

HandleJoinRoom(c) ==
  /\ ~crashed /\ hpc = "idle" /\ conn[c] = "live"
  /\ inDir /\ nextId <= MaxJoins /\ CanLock(HubTask)
  /\ nextId' = nextId + 1
  /\ IF Cardinality(Players) >= MaxPlayers
     THEN /\ lastOut' = Out("join_room", "false", "room is full", "none")
          /\ UNCHANGED <<Players, obj, clients, HostID, lastWrite, playerMap,
                         crashed>>
     ELSE /\ AddPlayer(nextId, c)
          /\ playerMap' = [playerMap EXCEPT ![c] = nextId]
          /\ crashed' = BroadcastPanics(Players', clients')
          /\ lastOut' = Out("join_room", "true", "join_room", "room_info")
  /\ UNCHANGED <<created, inDir, State, stopCh, remainingTime, closeCount,
                 conn, hubClients, sendClosed, hpc, hcur, hfound, loopVars,
                 holds, now, sideVars, endedCount, gameOverCount, lastWinner,
                 lastTick>>

\* A handler that looks its room up: GetPlayerID, then FindRoomByPlayerID.
HubBegin(op, c) ==
  /\ ~crashed /\ hpc = "idle" /\ conn[c] = "live"
  /\ op \in {"leave_room", "player_move"} => playerMap[c] # 0
  /\ FindRoomEnter(op, c)
  /\ UNCHANGED <<roomVars, playerMap, conn, hubClients, sendClosed, hfound,
                 loopVars, now, sideVars, nextId, crashed, histVars>>

\* FindRoomByPlayerID: the lookup in room.Players, both unlocks, the return.
FindRoomReturn ==
  /\ ~crashed /\ hpc = "find_room"
  /\ hfound' = (inDir /\ playerMap[hcur.c] \in Players)
  /\ holds' = [holds EXCEPT ![HubTask] = {}]
  /\ hpc' = "found"
  /\ UNCHANGED <<roomVars, playerMap, conn, hubClients, sendClosed, hcur,
                 loopVars, now, sideVars, nextId, crashed, histVars>>

\* The player id the router resolved for the request in hand.
Pid == playerMap[hcur.c]

\* The handler in hand returns to Hub.Run.
HubDone == hpc' = "idle" /\ hcur' = NoRequest

HandleSelectTeam(role) ==
  /\ ~crashed /\ hpc = "found" /\ hcur.op = "select_team"
  /\ HubDone
  /\ IF ~hfound \/ role \notin {"police", "thief"}
     THEN /\ lastOut' = OutOf("select_team", role, "none",
                              IF ~hfound THEN "not in a room"
                              ELSE "invalid role",
                              "none")
          /\ UNCHANGED <<obj, lastWrite, crashed>>
     ELSE /\ CanRLock(HubTask)
          /\ IF ~CanSelectRole(role)
             THEN /\ lastOut' = OutOf("select_team", role, "none",
                                      "team is full", "none")
                  /\ UNCHANGED <<obj, lastWrite, crashed>>
             ELSE /\ lastOut' = OutOf("select_team", role, "none", "none",
                                      "room_info")
                  /\ obj' = [obj EXCEPT ![Pid].Role = role]
                  /\ lastWrite' = IF HoldsWrite(HubTask) THEN "locked"
                                  ELSE "select_team"
                  /\ crashed' = BroadcastPanics(Players, clients)
  /\ UNCHANGED <<created, inDir, State, Players, clients, HostID, stopCh,
                 remainingTime, closeCount, playerMap, conn, hubClients,
                 sendClosed, hfound, loopVars, holds, now, sideVars, nextId,
                 endedCount, gameOverCount, lastWinner, lastTick>>

\* Room.SetPlayerReady(playerID, ready) on the objects o: the objects after
\* the flag is set; the value returned is allReady of them.
SetPlayerReady(o, id, ready) ==
  IF id \in Players THEN [o EXCEPT ![id].Ready = ready] ELSE o

\* A Go bool, as lastOut records it.
Bool(b) == IF b THEN "true" ELSE "false"

HandlePlayerReady ==
  /\ ~crashed /\ hpc = "found" /\ hcur.op = "player_ready"
  /\ HubDone
  /\ IF ~hfound
     THEN /\ lastOut' = Out("player_ready", "none", "not in a room", "none")
          /\ UNCHANGED <<State, stopCh, remainingTime, obj, loopVars, lastWrite,
                         crashed>>
     ELSE /\ CanLock(HubTask)
          /\ lastWrite' = "locked"
          /\ lastOut' =
               Out("player_ready",
                   Bool(allReady(SetPlayerReady(obj, Pid, TRUE), Players)),
                   "none",
                   IF /\ ~BroadcastPanics(Players, clients)
                      /\ allReady(SetPlayerReady(obj, Pid, TRUE), Players)
                   THEN "game_start" ELSE "room_info")
          /\ IF BroadcastPanics(Players, clients)
             THEN /\ crashed' = TRUE
                  /\ obj' = SetPlayerReady(obj, Pid, TRUE)
                  /\ UNCHANGED <<State, stopCh, remainingTime, loopVars>>
             ELSE /\ UNCHANGED crashed
                  /\ IF allReady(SetPlayerReady(obj, Pid, TRUE), Players)
                     THEN StartGame(SetPlayerReady(obj, Pid, TRUE))
                     ELSE /\ obj' = SetPlayerReady(obj, Pid, TRUE)
                          /\ UNCHANGED <<State, stopCh, remainingTime, loopVars>>
  /\ UNCHANGED <<created, inDir, Players, clients, HostID, closeCount,
                 playerMap, conn, hubClients, sendClosed, hfound, holds,
                 now, sideVars, nextId, endedCount, gameOverCount, lastWinner, lastTick>>

\* HandleLeaveRoom and HandleDisconnect, after the room lookup.
removePlayer ==
  /\ ~crashed /\ hpc = "found" /\ hcur.op \in {"leave_room", "disconnect"}
  /\ HubDone
  /\ playerMap' = [playerMap EXCEPT ![hcur.c] = 0]
  /\ lastOut' = Out(hcur.op, "none", "none",
                    IF hfound /\ Players \ {Pid} # {} THEN "room_info"
                    ELSE "none")
  /\ IF ~hfound
     THEN UNCHANGED <<inDir, Players, clients, HostID, lastWrite, crashed>>
     ELSE /\ CanLock(HubTask)
          /\ Players' = Players \ {Pid}
          /\ clients' = [clients EXCEPT ![Pid] = 0]
          /\ IF HostID = Pid /\ Players' # {}
             THEN HostID' \in Players'
             ELSE UNCHANGED HostID
          /\ lastWrite' = "locked"
          /\ inDir' = (Players' # {})
          /\ crashed' = BroadcastPanics(Players', clients')
  /\ UNCHANGED <<created, State, stopCh, remainingTime, obj, closeCount, conn,
                 hubClients, sendClosed, hfound, loopVars, holds, now, sideVars,
                 nextId, endedCount, gameOverCount, lastWinner, lastTick>>

\* The ticks HandlePlayerMove takes to have elapsed since the player's last
\* accepted move: one if there was none.
ElapsedTicks(p) ==
  IF p.LastMoveTime = 0 THEN 1 ELSE (now - p.LastMoveTime) * ClockStepTicks

\* A variant of MaxDist without the tolerance of one half.
MaxDistExact(p) == (MoveSpeed * ElapsedTicks(p)) \div TickRate

\* maxDist = MoveSpeed * elapsed * 1.5, in pixels: a whole number, 3 * MoveSpeed
\* being a multiple of 2 * TickRate.
MaxDist(p) == (3 * MoveSpeed * ElapsedTicks(p)) \div (2 * TickRate)

\* dist > maxDist.
TooFast(p, q) == DistanceSq(p.X, p.Y, q.x, q.y) > MaxDist(p) * MaxDist(p)

\* HandlePlayerMove of a request for position q, after the room lookup.
\* A variant of GameNotInProgress that turns away the moves of a room that
\* waits only.
GameNotStarted == State = "waiting"

\* HandlePlayerMove: r.State != game.StatePlaying.
GameNotInProgress == State # "playing"

\* HandlePlayerMove for the request q, after the room lookup; arg is what the
\* history keeps of the request.
PlayerMoveHandled(q, arg) ==
  /\ ~crashed /\ hpc = "found" /\ hcur.op = "player_move"
  /\ HubDone
  /\ IF ~hfound \/ GameNotInProgress \/ Pid \notin Players
        \/ TooFast(obj[Pid], ClampPosition(q))
     THEN /\ lastOut' =
               OutOf("player_move", arg, "none",
                   IF ~hfound THEN "not in a room"
                   ELSE IF GameNotInProgress THEN "game is not in progress"
                   ELSE IF Pid \notin Players THEN "none"
                   ELSE "movement too fast",
                   "none")
          /\ UNCHANGED <<obj, lastWrite, crashed>>
     ELSE /\ lastOut' = OutOf("player_move", arg, "none", "none",
                              "player_move")
          /\ obj' = [obj EXCEPT ![Pid].X = ClampPosition(q).x,
                                ![Pid].Y = ClampPosition(q).y,
                                ![Pid].LastMoveTime = now]
          /\ lastWrite' = IF HoldsWrite(HubTask) THEN "locked" ELSE "player_move"
          /\ crashed' = BroadcastPanics(Players, clients)
  /\ UNCHANGED <<created, inDir, State, Players, clients, HostID, stopCh,
                 remainingTime, closeCount, playerMap, conn, hubClients,
                 sendClosed, hfound, loopVars, holds, now, sideVars, nextId,
                 endedCount, gameOverCount, lastWinner, lastTick>>

\* time.Now() moves on by one clock step.
AdvanceClock ==
  /\ ~crashed /\ now < MaxNow
  /\ now' = now + 1
  /\ UNCHANGED <<roomVars, hubVars, loopVars, holds, sideVars, nextId,
                 crashed, histVars>>

HandlePlayerMove(q) == PlayerMoveHandled(q, "none")

\* HandlePlayerMove, the history keeping the position asked for.
HandlePlayerMoveTo(q) == PlayerMoveHandled(q, q)

\* ---- the system ---------------------------------------------------------
Roles == {"police", "thief"}
Results == {"none"}

\* The lobby, from the construction of the server.
Next ==
  \/ \E c \in LobbyClients : Register(c)
  \/ \E c \in LobbyClients : Unregister(c)
  \/ \E c \in LobbyClients : HandleCreateRoom(c)
  \/ \E c \in LobbyClients : HandleJoinRoom(c)
  \/ \E c \in LobbyClients : HubBegin("select_team", c)
  \/ \E c \in LobbyClients : HubBegin("player_ready", c)
  \/ \E c \in LobbyClients : HubBegin("leave_room", c)
  \/ FindRoomReturn
  \/ \E role \in Roles : HandleSelectTeam(role)
  \/ HandlePlayerReady
  \/ removePlayer
  \/ \E l \in Loops : LoopStop(l)
  \/ \E l \in Loops : TickLock(l)
  \/ \E l \in Loops : TickBody(l)
  \/ \E l \in Loops : TickCheck(l)

Spec == Init /\ [][Next]_vars

\* ---- the Room's exported operations, called directly --------------------
\* A player object as the lobby leaves it: team picked, ready.
Member(role) == [NewPlayer EXCEPT !.Role = role, !.Ready = TRUE]

\* A room of a police and a thief, both connected, waiting.
InitRoom ==
  /\ created = TRUE /\ inDir = TRUE
  /\ State = "waiting" /\ Players = 1..2
  /\ clients = [i \in Ids |-> IF i <= 2 THEN i ELSE 0]
  /\ HostID = 1 /\ stopCh = 0 /\ remainingTime = 0
  /\ obj = [i \in Ids |-> IF i = 1 THEN Member("police")
                          ELSE IF i = 2 THEN Member("thief") ELSE NewPlayer]
  /\ closeCount = [ch \in Chans |-> 0]
  /\ playerMap = [c \in Clients |-> IF c <= 2 THEN c ELSE 0]
  /\ conn = [c \in Clients |-> IF c <= 2 THEN "live" ELSE "new"]
  /\ hubClients = 1..2 /\ sendClosed = {}
  /\ hpc = "idle" /\ hcur = NoRequest /\ hfound = FALSE
  /\ lpc = [l \in Loops |-> "off"]
  /\ ltimer = [l \in Loops |-> FALSE] /\ llist = [l \in Loops |-> {}]
  /\ holds = [t \in Tasks |-> {}]
  /\ now = 1 /\ nextId = 3 /\ crashed = FALSE
  /\ endedCount = [ch \in Chans |-> 0]
  /\ gameOverCount = [ch \in Chans |-> 0]
  /\ lastWinner = "none"
  /\ lastWrite = "none"
  /\ lastTick = NoTick
  /\ lastOut = NoOut
  /\ AuthIdle /\ PumpIdle /\ SendIdle /\ DirIdle

\* r.PrepareGame() followed by r.StartGameLoop().
StartGameCall ==
  /\ ~crashed /\ CanLock(ExtTask) /\ stopCh < MaxGames
  /\ \E f \in SpawnAssignments(obj, Players) : PrepareGame(obj, f)
  /\ StartGameLoop(stopCh + 1)
  /\ lastWrite' = "locked"
  /\ UNCHANGED <<created, inDir, Players, clients, HostID, closeCount,
                 hubVars, holds, now, sideVars, nextId, crashed, endedCount,
                 gameOverCount, lastWinner, lastTick, lastOut>>

\* r.RemovePlayer(id); the new host is whichever key the range over the map
\* yields first.
RemovePlayerCall(id) ==
  /\ ~crashed /\ created /\ CanLock(ExtTask)
  /\ Players' = Players \ {id}
  /\ clients' = [clients EXCEPT ![id] = 0]
  /\ IF HostID = id /\ Players' # {}
     THEN HostID' \in Players'
     ELSE UNCHANGED HostID
  /\ lastWrite' = "locked"
  /\ UNCHANGED <<created, inDir, State, stopCh, remainingTime, obj,
                 closeCount, hubVars, loopVars, holds, now, sideVars, nextId, crashed,
                 endedCount, gameOverCount, lastWinner, lastTick, lastOut>>

NextRoom ==
  \/ StartGameCall
  \/ \E id \in Players : RemovePlayerCall(id)
  \/ \E result \in Results : StopGameCall(result)
  \/ ResetCall
  \/ \E l \in Loops : LoopStop(l)
  \/ \E l \in Loops : TickLock(l)
  \/ \E l \in Loops : TickBody(l)
  \/ \E l \in Loops : TickCheck(l)

SpecRoom == InitRoom /\ [][NextRoom]_vars

\* ---- a game in progress -------------------------------------------------
\* A player in the game: has moved to q since the spawn.
InGame(role, q) ==
  [Member(role) EXCEPT !.X = q.x, !.Y = q.y, !.LastMoveTime = 1]

\* The rosters and places the game starts from: one or two police near the
\* jail, two or three thieves near or inside the jail's range.
Rosters ==
  {o \in [Ids -> {InGame("police", PolicePost), InGame("thief", NearJail),
                  InGame("thief", InJail)}] :
     /\ o[1].Role = "police"
     /\ o[3].Role = "thief" /\ o[4].Role = "thief"}

\* A game of four players after PrepareGame and StartGameLoop.
InitTick ==
  /\ created = TRUE /\ inDir = TRUE
  /\ State = "playing" /\ Players = Ids
  /\ clients = [i \in Ids |-> i]
  /\ HostID = 1 /\ stopCh = 1 /\ remainingTime = TicksLeft
  /\ obj \in Rosters
  /\ closeCount = [ch \in Chans |-> 0]
  /\ playerMap = [c \in Clients |-> c]
  /\ conn = [c \in Clients |-> "live"]
  /\ hubClients = Clients /\ sendClosed = {}
  /\ hpc = "idle" /\ hcur = NoRequest /\ hfound = FALSE
  /\ lpc = [l \in Loops |-> IF l = 1 THEN "select" ELSE "off"]
  /\ ltimer = [l \in Loops |-> FALSE] /\ llist = [l \in Loops |-> {}]
  /\ holds = [t \in Tasks |-> {}]
  /\ now = 1 /\ nextId = MaxIds + 1 /\ crashed = FALSE
  /\ endedCount = [ch \in Chans |-> 0]
  /\ gameOverCount = [ch \in Chans |-> 0]
  /\ lastWinner = "none"
  /\ lastWrite = "locked"
  /\ lastTick = NoTick
  /\ lastOut = NoOut
  /\ AuthIdle /\ PumpIdle /\ SendIdle /\ DirIdle

NextTick ==
  \/ \E c \in Movers : HubBegin("player_move", c)
  \/ FindRoomReturn
  \/ \E q \in MoveRequests : HandlePlayerMove(q)
  \/ AdvanceClock
  \/ \E result \in Results : StopGameCall(result)
  \/ \E l \in Loops : LoopStop(l)
  \/ \E l \in Loops : TickLock(l)
  \/ \E l \in Loops : TickBody(l)
  \/ \E l \in Loops : TickCheck(l)

SpecTick == InitTick /\ [][NextTick]_vars

\* ---- Room.SetPlayerReady, called directly --------------------------------
TeamIds == 1..MaxTeam

\* The player objects a test puts into a room: any team, ready or not.
Entrants ==
  {[NewPlayer EXCEPT !.Role = role, !.Ready = ready] :
     role \in {"none", "police", "thief"}, ready \in BOOLEAN}

\* A waiting room with any of the players TeamIds, as AddPlayer leaves it.
InitReady ==
  /\ created = TRUE /\ inDir = TRUE
  /\ State = "waiting" /\ Players \in SUBSET TeamIds
  /\ clients = [i \in Ids |-> IF i \in Players THEN i ELSE 0]
  /\ HostID = (IF Players = {} THEN 0
               ELSE CHOOSE i \in Players : \A j \in Players : i <= j)
  /\ stopCh = 0 /\ remainingTime = 0
  /\ obj \in [Ids -> Entrants]
  /\ \A i \in Ids \ Players : obj[i] = NewPlayer
  /\ closeCount = [ch \in Chans |-> 0]
  /\ playerMap = [c \in Clients |-> IF c \in Players THEN c ELSE 0]
  /\ conn = [c \in Clients |-> IF c \in Players THEN "live" ELSE "new"]
  /\ hubClients = Players /\ sendClosed = {}
  /\ hpc = "idle" /\ hcur = NoRequest /\ hfound = FALSE
  /\ lpc = [l \in Loops |-> "off"]
  /\ ltimer = [l \in Loops |-> FALSE] /\ llist = [l \in Loops |-> {}]
  /\ holds = [t \in Tasks |-> {}]
  /\ now = 1 /\ nextId = MaxTeam + 1 /\ crashed = FALSE
  /\ endedCount = [ch \in Chans |-> 0]
  /\ gameOverCount = [ch \in Chans |-> 0]
  /\ lastWinner = "none"
  /\ lastWrite = "locked"
  /\ lastTick = NoTick
  /\ lastOut = NoOut
  /\ AuthIdle /\ PumpIdle /\ SendIdle /\ DirIdle

\* r.SetPlayerReady(id, ready): the flag and allReady in one critical
\* section.
SetPlayerReadyCall(id, ready) ==
  /\ ~crashed /\ created /\ CanLock(ExtTask)
  /\ obj' = SetPlayerReady(obj, id, ready)
  /\ lastOut' = Out("SetPlayerReady",
                    Bool(allReady(SetPlayerReady(obj, id, ready), Players)),
                    "none", "none")
  /\ lastWrite' = "locked"
  /\ UNCHANGED <<created, inDir, State, Players, clients, HostID, stopCh,
                 remainingTime, closeCount, hubVars, loopVars, holds, now,
                 sideVars, nextId, crashed, endedCount, gameOverCount,
                 lastWinner, lastTick>>

NextReady ==
  \/ \E id \in Ids, ready \in BOOLEAN : SetPlayerReadyCall(id, ready)
  \/ \E id \in Players : RemovePlayerCall(id)

SpecReady == InitReady /\ [][NextReady]_vars

\* ---- a room picking teams -------------------------------------------------
\* A waiting room after a create_room and MaxTeam - 1 join_room requests:
\* nobody has a team, nobody is ready.
InitTeams ==
  /\ created = TRUE /\ inDir = TRUE
  /\ State = "waiting" /\ Players = TeamIds
  /\ clients = [i \in Ids |-> IF i \in TeamIds THEN i ELSE 0]
  /\ HostID = 1 /\ stopCh = 0 /\ remainingTime = 0
  /\ obj = [i \in Ids |-> NewPlayer]
  /\ closeCount = [ch \in Chans |-> 0]
  /\ playerMap = [c \in Clients |-> IF c \in TeamIds THEN c ELSE 0]
  /\ conn = [c \in Clients |-> IF c \in TeamIds THEN "live" ELSE "new"]
  /\ hubClients = TeamIds /\ sendClosed = {}
  /\ hpc = "idle" /\ hcur = NoRequest /\ hfound = FALSE
  /\ lpc = [l \in Loops |-> "off"]
  /\ ltimer = [l \in Loops |-> FALSE] /\ llist = [l \in Loops |-> {}]
  /\ holds = [t \in Tasks |-> {}]
  /\ now = 1 /\ nextId = MaxTeam + 1 /\ crashed = FALSE
  /\ endedCount = [ch \in Chans |-> 0]
  /\ gameOverCount = [ch \in Chans |-> 0]
  /\ lastWinner = "none"
  /\ lastWrite = "locked"
  /\ lastTick = NoTick
  /\ lastOut = Out("join_room", "true", "join_room", "room_info")
  /\ AuthIdle /\ PumpIdle /\ SendIdle /\ DirIdle

NextTeams ==
  \/ \E c \in TeamIds : HubBegin("select_team", c)
  \/ \E c \in TeamIds : HubBegin("player_ready", c)
  \/ FindRoomReturn
  \/ \E role \in Roles : HandleSelectTeam(role)
  \/ HandlePlayerReady
  \/ \E l \in Loops : LoopStop(l)
  \/ \E l \in Loops : TickLock(l)
  \/ \E l \in Loops : TickBody(l)
  \/ \E l \in Loops : TickCheck(l)

SpecTeams == InitTeams /\ [][NextTeams]_vars

\* ---- Room.BroadcastMessage, send by send --------------------------------
\* The messages a room broadcasts.
Messages == {"game_state", "room_info"}

\* r.BroadcastMessage(msg) up to the range over r.clients: the read lock is
\* taken.
BroadcastBegin(msg) ==
  /\ ~crashed /\ bmsg = "none" /\ CanRLock(ExtTask)
  /\ bmsg' = msg
  /\ btodo' = {clients[i] : i \in Players}
  /\ holds' = [holds EXCEPT ![ExtTask] = {"room.r"}]
  /\ UNCHANGED <<roomVars, hubVars, loopVars, now, sendQ, lastSend, dirVars, connVars,
                 nextId, crashed, histVars>>

\* A variant of SendMessage whose send waits for room in the buffer.
SendMessageBlocking(c) ==
  /\ ~crashed /\ c \in btodo
  /\ Len(sendQ[c]) < SendCap
  /\ sendQ' = [sendQ EXCEPT ![c] = Append(@, bmsg)]
  /\ lastSend' = [c |-> c, sent |-> TRUE]
  /\ btodo' = btodo \ {c}
  /\ UNCHANGED <<roomVars, hubVars, loopVars, holds, now, bmsg, dirVars, connVars,
                 nextId, crashed, histVars>>

\* client.SendMessage(msg) of the broadcast in progress: the select sends if
\* the buffer has room and takes its default case if not; a send on a
\* closed channel panics.
SendMessage(c) ==
  /\ ~crashed /\ c \in btodo
  /\ btodo' = btodo \ {c}
  /\ IF c \in sendClosed
     THEN crashed' = TRUE /\ UNCHANGED <<sendQ, lastSend>>
     ELSE /\ UNCHANGED crashed
          /\ IF Len(sendQ[c]) < SendCap
             THEN /\ sendQ' = [sendQ EXCEPT ![c] = Append(@, bmsg)]
                  /\ lastSend' = [c |-> c, sent |-> TRUE]
             ELSE /\ UNCHANGED sendQ
                  /\ lastSend' = [c |-> c, sent |-> FALSE]
  /\ UNCHANGED <<roomVars, hubVars, loopVars, holds, now, bmsg, dirVars, connVars,
                 nextId, histVars>>

\* The range over r.clients is done: the deferred RUnlock, the return.
BroadcastEnd ==
  /\ ~crashed /\ bmsg # "none" /\ btodo = {}
  /\ bmsg' = "none"
  /\ holds' = [holds EXCEPT ![ExtTask] = {}]
  /\ UNCHANGED <<roomVars, hubVars, loopVars, now, sendQ, btodo, lastSend,
                 dirVars, connVars, nextId, crashed, histVars>>

\* WritePump: case message, ok := <-c.Send.
WritePump(c) ==
  /\ ~crashed /\ Len(sendQ[c]) > 0
  /\ sendQ' = [sendQ EXCEPT ![c] = Tail(@)]
  /\ UNCHANGED <<roomVars, hubVars, loopVars, holds, now, bmsg, btodo,
                 lastSend, dirVars, connVars, nextId, crashed, histVars>>

NextSend ==
  \/ \E msg \in Messages : BroadcastBegin(msg)
  \/ \E c \in Clients : SendMessage(c)
  \/ BroadcastEnd
  \/ \E c \in Clients : WritePump(c)

\* The broadcasting goroutine keeps running; no WritePump has to.
SpecSend ==
  /\ InitRoom /\ [][NextSend]_vars
  /\ WF_vars(\E c \in Clients : SendMessage(c))
  /\ WF_vars(BroadcastEnd)

\* ---- a game in progress, with the clients' queues ------------------------
\* The ticks of the loop and the clients' writers; no request and no
\* StopGame from outside, so the loop's stop case is never ready.
NextSnap ==
  \/ \E l \in Loops : TickLock(l)
  \/ \E l \in Loops : TickBodySend(l)
  \/ \E l \in Loops : TickCheckSend(l)
  \/ \E c \in Clients : WritePump(c)

\* The ticker keeps firing and the loop keeps running; no WritePump has to.
SpecSnap ==
  /\ InitTick /\ [][NextSnap]_vars
  /\ WF_vars(\E l \in Loops : TickLock(l))
  /\ WF_vars(\E l \in Loops : TickBodySend(l))
  /\ WF_vars(\E l \in Loops : TickCheckSend(l))

\* ---- the Hub's register and unregister cases, in any order --------------
\* A variant of InHubClients that takes every client for a member.
InHubClientsAny(c) == c \in Clients

\* Hub.Run, unregister: _, ok := h.Clients[client]; ok.
InHubClients(c) == c \in hubClients

\* case client := <-h.Register, for any client at any time; conn keeps
\* whether the client was unregistered before ("again").
RegisterEvent(c) ==
  /\ ~crashed
  /\ hubClients' = hubClients \cup {c}
  /\ conn' = [conn EXCEPT ![c] = IF @ = "new" THEN "live"
                                 ELSE IF @ = "gone" THEN "again" ELSE @]
  /\ lastOut' = OutOf("register", c, "none", "none", "none")
  /\ UNCHANGED <<roomVars, playerMap, sendClosed, hpc, hcur, hfound, loopVars,
                 holds, now, sideVars, nextId, crashed, endedCount,
                 gameOverCount, lastWinner, lastWrite, lastTick>>

\* case client := <-h.Unregister, for any client at any time: a close of a
\* closed channel panics.  OnDisconnect finds no player for the client.
UnregisterEvent(c) ==
  /\ ~crashed
  /\ IF InHubClients(c)
     THEN /\ hubClients' = hubClients \ {c}
          /\ conn' = [conn EXCEPT ![c] = IF @ = "live" THEN "gone" ELSE @]
          /\ IF c \in sendClosed
             THEN /\ crashed' = TRUE
                  /\ lastOut' = OutOf("unregister", c, "panic", "none", "none")
                  /\ UNCHANGED sendClosed
             ELSE /\ sendClosed' = sendClosed \cup {c}
                  /\ lastOut' = OutOf("unregister", c, "closed", "none",
                                      "none")
                  /\ UNCHANGED crashed
     ELSE /\ lastOut' = OutOf("unregister", c, "none", "none", "none")
          /\ UNCHANGED <<hubClients, conn, sendClosed, crashed>>
  /\ UNCHANGED <<roomVars, playerMap, hpc, hcur, hfound, loopVars, holds,
                 now, sideVars, nextId, endedCount, gameOverCount,
                 lastWinner, lastWrite, lastTick>>

NextHub ==
  \/ \E c \in Clients : RegisterEvent(c)
  \/ \E c \in Clients : UnregisterEvent(c)

SpecHub == Init /\ [][NextHub]_vars

\* ---- movement requests, one by one --------------------------------------
\* Requests outside the map, next to the ones inside it.
OffMapWest == Pos(0 - 100, 4448)
OffMapSouth == Pos(JailX, 9000)
OffMapFar == Pos(10000, 10000)
MoveTargets == MoveRequests \cup {OffMapWest, OffMapSouth, OffMapFar}

\* A player of a game that has or has not moved since the spawn put it at q.
Spawned(role, q, t) ==
  [Member(role) EXCEPT !.X = q.x, !.Y = q.y, !.LastMoveTime = t]

\* The games the requests are sent to: a police and thieves near the jail,
\* two of them fresh from their spawn.
MoveRosters ==
  {o \in [Ids -> {InGame("police", PolicePost), InGame("thief", NearJail),
                  Spawned("thief", OutOfJail, 0),
                  Spawned("thief", NearJail, 0)}] :
     /\ o[1].Role = "police" /\ o[2] = InGame("thief", NearJail)
     /\ o[3].Role = "thief" /\ o[4].Role = "thief"}

\* A game of four players after PrepareGame and StartGameLoop, as InitTick.
InitMove ==
  /\ created = TRUE /\ inDir = TRUE
  /\ State = "playing" /\ Players = Ids
  /\ clients = [i \in Ids |-> i]
  /\ HostID = 1 /\ stopCh = 1 /\ remainingTime = TicksLeft
  /\ obj \in MoveRosters
  /\ closeCount = [ch \in Chans |-> 0]
  /\ playerMap = [c \in Clients |-> c]
  /\ conn = [c \in Clients |-> "live"]
  /\ hubClients = Clients /\ sendClosed = {}
  /\ hpc = "idle" /\ hcur = NoRequest /\ hfound = FALSE
  /\ lpc = [l \in Loops |-> IF l = 1 THEN "select" ELSE "off"]
  /\ ltimer = [l \in Loops |-> FALSE] /\ llist = [l \in Loops |-> {}]
  /\ holds = [t \in Tasks |-> {}]
  /\ now = 1 /\ nextId = MaxIds + 1 /\ crashed = FALSE
  /\ endedCount = [ch \in Chans |-> 0]
  /\ gameOverCount = [ch \in Chans |-> 0]
  /\ lastWinner = "none"
  /\ lastWrite = "locked"
  /\ lastTick = NoTick
  /\ lastOut = NoOut
  /\ AuthIdle /\ PumpIdle /\ SendIdle /\ DirIdle

\* The requests and the clock only: a tick writes no X, Y or LastMoveTime.
NextMove ==
  \/ \E c \in Movers : HubBegin("player_move", c)
  \/ FindRoomReturn
  \/ \E q \in MoveTargets : HandlePlayerMoveTo(q)
  \/ AdvanceClock

SpecMove == InitMove /\ [][NextMove]_vars

\* ---- the room directory, with rooms of up to MaxPlayers -----------------
\* Everything but the directory, the router's map and the last outcome.
dirFrame == <<roomVars, hubVars, loopVars, holds, now, sendVars, connVars, nextId,
              crashed, endedCount, gameOverCount, lastWinner, lastWrite,
              lastTick>>

\* A variant of RoomFull that never finds the room full.
RoomNeverFull(r) == Cardinality(r.Players) < 0

\* Room.AddPlayer: len(r.Players) >= game.MaxPlayers.
RoomFull(r) == Cardinality(r.Players) >= MaxPlayers

\* Room.AddPlayer(player, client) on room r: the room after the call.
AddPlayerTo(r, id, c) ==
  IF RoomFull(r) THEN r
  ELSE [r EXCEPT !.Players = @ \cup {id},
                 !.clients = [i \in r.Players \cup {id} |->
                                IF i = id THEN c ELSE r.clients[i]],
                 !.HostID = IF r.Players \cup {id} = {id} THEN id ELSE @]

\* A variant of RemovePlayerFrom that leaves the host as it is.
RemovePlayerKeepingHost(r, id) ==
  {[r EXCEPT !.Players = @ \ {id},
             !.clients = [i \in r.Players \ {id} |-> r.clients[i]]]}

\* Room.RemovePlayer(playerID) on room r: the rooms the call can leave, one
\* for each player the range over r.Players can come to first.
RemovePlayerFrom(r, id) ==
  {[r EXCEPT !.Players = @ \ {id},
             !.clients = [i \in r.Players \ {id} |-> r.clients[i]],
             !.HostID = h] :
     h \in IF r.HostID = id /\ r.Players \ {id} # {}
           THEN r.Players \ {id} ELSE {r.HostID}}

\* Manager.FindRoomByPlayerID: the codes of the rooms the range over m.rooms
\* can return.
FindRoomByPlayerID(id) == {k \in Codes : rooms[k].in /\ id \in rooms[k].Players}

\* A variant of NewPlayerID that hands out the id handed out last.
ReusedPlayerID == dirNext - 1

\* game.NewPlayer: ID: uuid.New().String(), an id never handed out before.
NewPlayerID == dirNext

\* A directory with one room of Seated players, whose connections are not
\* among DirClients (written 0).
InitDir ==
  /\ created = FALSE /\ inDir = FALSE
  /\ State = "waiting" /\ Players = {} /\ clients = [i \in Ids |-> 0]
  /\ HostID = 0 /\ stopCh = 0 /\ remainingTime = 0
  /\ obj = [i \in Ids |-> NewPlayer]
  /\ closeCount = [ch \in Chans |-> 0]
  /\ playerMap = [c \in Clients |-> 0]
  /\ conn = [c \in Clients |-> "new"]
  /\ hubClients = {} /\ sendClosed = {}
  /\ hpc = "idle" /\ hcur = NoRequest /\ hfound = FALSE
  /\ lpc = [l \in Loops |-> "off"]
  /\ ltimer = [l \in Loops |-> FALSE] /\ llist = [l \in Loops |-> {}]
  /\ holds = [t \in Tasks |-> {}]
  /\ now = 1 /\ nextId = 1 /\ crashed = FALSE
  /\ endedCount = [ch \in Chans |-> 0]
  /\ gameOverCount = [ch \in Chans |-> 0]
  /\ lastWinner = "none"
  /\ lastWrite = "none"
  /\ lastTick = NoTick
  /\ lastOut = NoOut
  /\ AuthIdle /\ PumpIdle /\ SendIdle
  /\ rooms = [k \in Codes |->
               IF k = 1 THEN [in |-> TRUE, Players |-> 1..Seated,
                              clients |-> [i \in 1..Seated |-> 0],
                              HostID |-> 1]
               ELSE NoRoom]
  /\ dirMap = [c \in DirClients |-> 0]
  /\ dirNext = Seated + 1

\* GenerateCode(existing) with n draws left of its loop: the codes it can
\* return.  A draw outside existing is returned; when every draw of the
\* loop fell in existing, one more draw is returned as it is.
RECURSIVE GenerateCodeFrom(_, _)
GenerateCodeFrom(existing, n) ==
  IF n = 0 THEN Codes
  ELSE (Codes \ existing)
         \cup (IF existing # {} THEN GenerateCodeFrom(existing, n - 1) ELSE {})

GenerateCode(existing) == GenerateCodeFrom(existing, MaxRetries)

\* HandleCreateRoom: CreateRoom (m.rooms[code] = NewRoom(code) under the
\* code GenerateCode returned), NewPlayer, AddPlayer, RegisterPlayer, the
\* reply.
HandleCreateRoomIn(c) ==
  /\ NewPlayerID <= MaxDirIds
  /\ \E k \in GenerateCode({j \in Codes : rooms[j].in}) :
       /\ rooms' = [rooms EXCEPT ![k] =
                      AddPlayerTo([NoRoom EXCEPT !.in = TRUE], NewPlayerID, c)]
       /\ lastOut' = OutOf("create_room", k, "true", "create_room", "none")
  /\ dirMap' = [dirMap EXCEPT ![c] = NewPlayerID]
  /\ dirNext' = dirNext + 1
  /\ UNCHANGED dirFrame

\* HandleJoinRoom with code k.
HandleJoinRoomIn(c, k) ==
  IF ~rooms[k].in
  THEN /\ lastOut' = OutOf("join_room", k, "none", "room not found", "none")
       /\ UNCHANGED <<dirVars, dirFrame>>
  ELSE /\ NewPlayerID <= MaxDirIds
       /\ dirNext' = dirNext + 1
       /\ rooms' = [rooms EXCEPT ![k] = AddPlayerTo(@, NewPlayerID, c)]
       /\ IF RoomFull(rooms[k])
          THEN /\ lastOut' = OutOf("join_room", k, "false", "room is full",
                                   "none")
               /\ UNCHANGED dirMap
          ELSE /\ lastOut' = OutOf("join_room", k, "true", "join_room",
                                   "room_info")
               /\ dirMap' = [dirMap EXCEPT ![c] = NewPlayerID]
       /\ UNCHANGED dirFrame

\* A variant of IsEmpty that finds no room empty.
IsEmptyNever(r) == r.Players = {} /\ ~r.in

\* Room.IsEmpty: len(r.Players) == 0.
IsEmpty(r) == r.Players = {}

\* HandleLeaveRoom and HandleDisconnect: removePlayer.
removePlayerIn(op, c) ==
  /\ IF dirMap[c] = 0
     THEN /\ lastOut' = OutOf(op, 0, "none", "none", "none")
          /\ UNCHANGED rooms
     ELSE IF FindRoomByPlayerID(dirMap[c]) = {}
     THEN /\ lastOut' = OutOf(op, 0, "none", "none", "none")
          /\ UNCHANGED rooms
     ELSE \E k \in FindRoomByPlayerID(dirMap[c]) :
          \E r \in RemovePlayerFrom(rooms[k], dirMap[c]) :
            /\ rooms' = [rooms EXCEPT ![k] = IF IsEmpty(r) THEN NoRoom
                                             ELSE r]
            /\ lastOut' = OutOf(op, k, "none", "none",
                                IF IsEmpty(r) THEN "none" ELSE "room_info")
  /\ dirMap' = [dirMap EXCEPT ![c] = 0]
  /\ UNCHANGED <<dirNext, dirFrame>>

NextDir ==
  \/ \E c \in DirClients : HandleCreateRoomIn(c)
  \/ \E c \in DirClients, k \in Codes : HandleJoinRoomIn(c, k)
  \/ \E c \in DirClients : removePlayerIn("leave_room", c)
  \/ \E c \in DirClients : removePlayerIn("disconnect", c)

SpecDir == InitDir /\ [][NextDir]_vars

\* r.AddPlayer(game.NewPlayer(...), client) called on room k, the whole
\* call under r.mu.Lock.
AddPlayerCall(k, c) ==
  /\ rooms[k].in /\ NewPlayerID <= MaxDirIds
  /\ dirNext' = dirNext + 1
  /\ rooms' = [rooms EXCEPT ![k] = AddPlayerTo(@, NewPlayerID, c)]
  /\ lastOut' = OutOf("AddPlayer", k, Bool(~RoomFull(rooms[k])), "none",
                      "none")
  /\ UNCHANGED <<dirMap, dirFrame>>

\* r.RemovePlayer(playerID) called on room k, the whole call under
\* r.mu.Lock.
RemovePlayerOf(k, id) ==
  /\ rooms[k].in
  /\ rooms' \in {[rooms EXCEPT ![k] = r] : r \in RemovePlayerFrom(rooms[k], id)}
  /\ lastOut' = OutOf("RemovePlayer", k, "none", "none", "none")
  /\ UNCHANGED <<dirMap, dirNext, dirFrame>>

NextSeats ==
  \/ \E k \in Codes, c \in DirClients : AddPlayerCall(k, c)
  \/ \E k \in Codes, id \in DirIds : RemovePlayerOf(k, id)

SpecSeats == InitDir /\ [][NextSeats]_vars

\* ---- Router.HandleMessage, with authentication ---------------------------
Accounts == 1..MaxAccounts
FrameTypes == {"authenticate", "create_room", "join_room", "leave_room",
               "select_team", "player_ready", "player_move"}

\* NewClient, on top of the construction of the server: no connection has
\* authenticated.
InitAuth ==
  /\ created = FALSE /\ inDir = FALSE
  /\ State = "waiting" /\ Players = {} /\ clients = [i \in Ids |-> 0]
  /\ HostID = 0 /\ stopCh = 0 /\ remainingTime = 0
  /\ obj = [i \in Ids |-> NewPlayer]
  /\ closeCount = [ch \in Chans |-> 0]
  /\ playerMap = [c \in Clients |-> 0]
  /\ conn = [c \in Clients |-> "new"]
  /\ hubClients = {} /\ sendClosed = {}
  /\ hpc = "idle" /\ hcur = NoRequest /\ hfound = FALSE
  /\ lpc = [l \in Loops |-> "off"]
  /\ ltimer = [l \in Loops |-> FALSE] /\ llist = [l \in Loops |-> {}]
  /\ holds = [t \in Tasks |-> {}]
  /\ now = 1 /\ nextId = 1 /\ crashed = FALSE
  /\ endedCount = [ch \in Chans |-> 0]
  /\ gameOverCount = [ch \in Chans |-> 0]
  /\ lastWinner = "none"
  /\ lastWrite = "none"
  /\ lastTick = NoTick
  /\ lastOut = NoOut
  /\ PumpIdle /\ SendIdle /\ DirIdle
  /\ Authenticated = [c \in Clients |-> FALSE]
  /\ AccountID = [c \in Clients |-> 0]

\* Everything a frame that is answered on the spot leaves alone.
authFrame == <<roomVars, hubVars, loopVars, holds, now, sendVars, dirVars,
               pumpVars,
               nextId, crashed, endedCount, gameOverCount, lastWinner,
               lastWrite, lastTick>>

\* AuthHandler.HandleAuthenticate.  The request fails on invalid data, an
\* unknown method, an empty nickname, a failed verification or a store
\* error; otherwise authenticateClient sets the account found or created.
HandleAuthenticate(c) ==
  /\ IF Authenticated[c]
     THEN /\ lastOut' = Out("authenticate", "none", "already authenticated",
                            "none")
          /\ UNCHANGED authVars
     ELSE \/ /\ lastOut' = Out("authenticate", "false", "auth_result", "none")
             /\ UNCHANGED authVars
          \/ \E a \in Accounts :
               /\ AccountID' = [AccountID EXCEPT ![c] = a]
               /\ Authenticated' = [Authenticated EXCEPT ![c] = TRUE]
               /\ lastOut' = Out("authenticate", "true", "auth_result", "none")
  /\ UNCHANGED authFrame

\* A variant of AuthGuard that lets every connection through.
AuthGuardOpen(c) == TRUE

\* The auth guard of HandleMessage: cm.Client.Authenticated.
AuthGuard(c) == Authenticated[c]

\* Router.HandleMessage for a frame of type t from connection c, up to the
\* return of the handler or, where the handler looks its room up, up to that
\* lookup.
HandleMessage(c, t) ==
  /\ ~crashed /\ hpc = "idle" /\ conn[c] = "live"
  /\ IF t = "authenticate" THEN HandleAuthenticate(c)
     ELSE IF ~AuthGuard(c)
     THEN /\ lastOut' = Out(t, "none", "authentication required", "none")
          /\ UNCHANGED <<authVars, authFrame>>
     ELSE CASE t = "create_room" -> HandleCreateRoom(c)
            [] t = "join_room" -> HandleJoinRoom(c)
            [] OTHER -> HubBegin(t, c)

\* The lobby, from the connections' first frames on.
NextAuth ==
  \/ \E c \in LobbyClients : Register(c)
  \/ \E c \in LobbyClients : Unregister(c)
  \/ \E c \in LobbyClients, t \in FrameTypes : HandleMessage(c, t)
  \/ FindRoomReturn
  \/ \E role \in Roles : HandleSelectTeam(role)
  \/ HandlePlayerReady
  \/ removePlayer
  \/ \E q \in MoveRequests : HandlePlayerMove(q)

SpecAuth == InitAuth /\ [][NextAuth]_vars

\* ---- game.ProcessArrests, called on its own --------------------------------
\* contacted: the thieves of the pairs, each with the police of the first
\* pair that names it (the players slice is in the order of the ids).
Contacted(o, list) ==
  [t \in {pr[2] : pr \in FindArrestPairs(o, list)} |->
     CHOOSE c \in list :
       /\ <<c, t>> \in FindArrestPairs(o, list)
       /\ \A d \in list : <<d, t>> \in FindArrestPairs(o, list) => c <= d]

\* A variant of ContactDt that adds one dt for each pair of the thief.
ContactDtPerPair(o, list, i) == ArrestCredit(o, list, i)

\* The dt terms ProcessArrests adds to a contacted thief: p.ArrestProgress
\* += dt, once in the loop over the players.
ContactDt(o, list, i) == 1

\* The players after ProcessArrests(players, dt).
ProcessedArrests(o, list) ==
  [i \in Ids |->
     IF i \in list /\ o[i].Role = "thief" /\ i \in DOMAIN Contacted(o, list)
     THEN LET p == [o[i] EXCEPT !.ArrestGauge = @ + ContactDt(o, list, i)]
          IN  IF p.ArrestGauge >= ArrestTicks THEN Arrest(p) ELSE p
     ELSE o[i]]

\* The events ProcessArrests appends while its loop goes over the players
\* from id i on.
RECURSIVE ArrestEventsFrom(_, _, _)
ArrestEventsFrom(o, list, i) ==
  IF i > MaxIds THEN <<>>
  ELSE IF /\ i \in list /\ o[i].Role = "thief"
          /\ i \in DOMAIN Contacted(o, list)
          /\ ProcessedArrests(o, list)[i].ArrestGauge >= ArrestTicks
       THEN <<[PoliceID |-> Contacted(o, list)[i], ThiefID |-> i]>>
              \o ArrestEventsFrom(o, list, i + 1)
       ELSE ArrestEventsFrom(o, list, i + 1)

\* The events ProcessArrests(players, dt) returns.
ArrestEvents(o, list) == ArrestEventsFrom(o, list, 1)

\* A player as a test of ProcessArrests sets it up.
Placed(role, q, state, gauge) ==
  [InGame(role, q) EXCEPT !.State = state, !.ArrestGauge = gauge]

\* The slices ProcessArrests is called on: a police first, then police and
\* thieves in or out of range, free, arrested or invincible, with any
\* progress up to the threshold.
ArrestRosters ==
  {o \in [Ids -> {Placed(role, q, "free", 0) :
                    role \in {"police"}, q \in {PolicePost, FarAway}}
                 \cup {Placed("thief", q, st, g) :
                         q \in {NearJail, FarAway},
                         st \in {"free", "arrested", "invincible"},
                         g \in 0..ArrestTicks}] :
     o[1].Role = "police" /\ o[2].Role = "thief"}

InitArrests ==
  /\ created = TRUE /\ inDir = TRUE
  /\ State = "playing" /\ Players = Ids
  /\ clients = [i \in Ids |-> i]
  /\ HostID = 1 /\ stopCh = 1 /\ remainingTime = TicksLeft
  /\ obj \in ArrestRosters
  /\ closeCount = [ch \in Chans |-> 0]
  /\ playerMap = [c \in Clients |-> c]
  /\ conn = [c \in Clients |-> "live"]
  /\ hubClients = Clients /\ sendClosed = {}
  /\ hpc = "idle" /\ hcur = NoRequest /\ hfound = FALSE
  /\ lpc = [l \in Loops |-> "off"]
  /\ ltimer = [l \in Loops |-> FALSE] /\ llist = [l \in Loops |-> {}]
  /\ holds = [t \in Tasks |-> {}]
  /\ now = 1 /\ nextId = MaxIds + 1 /\ crashed = FALSE
  /\ endedCount = [ch \in Chans |-> 0]
  /\ gameOverCount = [ch \in Chans |-> 0]
  /\ lastWinner = "none"
  /\ lastWrite = "locked"
  /\ lastTick = NoTick
  /\ lastOut = NoOut
  /\ AuthIdle /\ PumpIdle /\ SendIdle /\ DirIdle

\* One call of ProcessArrests on the players of the room.
ProcessArrestsCall ==
  /\ obj' = ProcessedArrests(obj, Players)
  /\ lastOut' = OutOf("ProcessArrests", "none", ArrestEvents(obj, Players),
                      "none", "none")
  /\ UNCHANGED <<created, inDir, State, Players, clients, HostID, stopCh,
                 remainingTime, closeCount, hubVars, loopVars, holds, now,
                 sideVars, nextId, crashed, endedCount, gameOverCount,
                 lastWinner, lastWrite, lastTick>>

NextArrests == ProcessArrestsCall

SpecArrests == InitArrests /\ [][NextArrests]_vars

\* ---- the connections' pumps and the Hub's three channels -----------------
Frame(op, c) == [op |-> op, c |-> c]

\* What the pumps leave alone but the queues.
pumpFrame == <<roomVars, hubVars, loopVars, holds, now, bmsg, btodo, lastSend,
               dirVars, authVars, nextId, crashed, histVars>>

\* A room of two players whose connections are registered, with their pumps
\* started; a connection's queue holds a message or none.
InitConn ==
  /\ created = TRUE /\ inDir = TRUE
  /\ State = "waiting" /\ Players = 1..2
  /\ clients = [i \in Ids |-> IF i <= 2 THEN i ELSE 0]
  /\ HostID = 1 /\ stopCh = 0 /\ remainingTime = 0
  /\ obj = [i \in Ids |-> IF i <= 2 THEN [NewPlayer EXCEPT !.Role = "thief"]
                          ELSE NewPlayer]
  /\ closeCount = [ch \in Chans |-> 0]
  /\ playerMap = [c \in Clients |-> IF c <= 2 THEN c ELSE 0]
  /\ conn = [c \in Clients |-> IF c <= 2 THEN "live" ELSE "new"]
  /\ hubClients = 1..2 /\ sendClosed = {}
  /\ hpc = "idle" /\ hcur = NoRequest /\ hfound = FALSE
  /\ lpc = [l \in Loops |-> "off"]
  /\ ltimer = [l \in Loops |-> FALSE] /\ llist = [l \in Loops |-> {}]
  /\ holds = [t \in Tasks |-> {}]
  /\ now = 1 /\ nextId = 3 /\ crashed = FALSE
  /\ endedCount = [ch \in Chans |-> 0]
  /\ gameOverCount = [ch \in Chans |-> 0]
  /\ lastWinner = "none"
  /\ lastWrite = "locked"
  /\ lastTick = NoTick
  /\ lastOut = NoOut
  /\ AuthIdle /\ PumpIdle /\ DirIdle
  /\ sendQ \in [Clients -> {<<>>, <<"room_info">>}]
  /\ \A c \in Clients \ LobbyClients : sendQ[c] = <<>>
  /\ bmsg = "none" /\ btodo = {} /\ lastSend = NoSend

\* ReadPump: ReadMessage returned a frame; c.Hub.Incoming <- frame, which
\* waits while the buffer is full.
ReadFrame(c) ==
  /\ ~crashed /\ rpc[c] = "read" /\ conn[c] = "live"
  /\ Len(incoming) < IncomingCap
  /\ incoming' = Append(incoming, Frame("select_team", c))
  /\ UNCHANGED <<rpc, wpc, sendQ, pumpFrame>>

\* ReadPump: ReadMessage returned an error; the loop breaks and the deferred
\* function comes to c.Hub.Unregister <- c.
ReadError(c) ==
  /\ ~crashed /\ rpc[c] = "read" /\ conn[c] = "live"
  /\ rpc' = [rpc EXCEPT ![c] = "unregister"]
  /\ UNCHANGED <<wpc, incoming, sendQ, pumpFrame>>

\* Hub.Run: case client := <-h.Unregister, up to the room lookup of
\* OnDisconnect; the ReadPump goes on to c.Conn.Close and returns.
HubUnregister(c) ==
  /\ rpc[c] = "unregister"
  /\ UnregisterCore(c)
  /\ rpc' = [rpc EXCEPT ![c] = "done"]
  /\ UNCHANGED <<wpc, incoming, sendVars, dirVars, authVars>>

\* A variant of Dispatched that drops the frames of connections that are
\* not registered.
DispatchedIfLive(f) == f.c \in hubClients

\* Hub.Run: case cm := <-h.Incoming hands every frame to OnMessage.
Dispatched(f) == TRUE

\* Hub.Run: case cm := <-h.Incoming, up to the room lookup of the handler.
HubIncoming ==
  /\ ~crashed /\ hpc = "idle" /\ incoming # <<>>
  /\ incoming' = Tail(incoming)
  /\ IF Dispatched(Head(incoming))
     THEN FindRoomEnter(Head(incoming).op, Head(incoming).c)
     ELSE UNCHANGED <<hpc, hcur, holds>>
  /\ UNCHANGED <<roomVars, playerMap, conn, hubClients, sendClosed, hfound,
                 loopVars, now, rpc, wpc, sendVars, dirVars, authVars, nextId,
                 crashed, histVars>>

\* HandleSelectTeam for a frame of any connection: client.SendMessage of an
\* error reply panics when the connection's Send channel is closed.
HandleSelectTeamSent(role) ==
  IF /\ hcur.c \in sendClosed
     /\ \/ ~hfound
        \/ role \notin {"police", "thief"}
        \/ ~CanSelectRole(role)
  THEN /\ ~crashed /\ hpc = "found" /\ hcur.op = "select_team"
       /\ ~hfound \/ CanRLock(HubTask)
       /\ crashed' = TRUE
       /\ lastOut' = OutOf("select_team", role, "panic", "none", "none")
       /\ UNCHANGED <<roomVars, hubVars, loopVars, holds, now, sideVars,
                      nextId, endedCount, gameOverCount, lastWinner,
                      lastWrite, lastTick>>
  ELSE HandleSelectTeam(role)

\* WritePump: case message, ok := <-c.Send with a message; the write
\* succeeds.  ReadPump has not closed the connection.
WritePumpSend(c) ==
  /\ ~crashed /\ wpc[c] = "run" /\ rpc[c] # "done"
  /\ sendQ[c] # <<>>
  /\ sendQ' = [sendQ EXCEPT ![c] = Tail(@)]
  /\ UNCHANGED <<rpc, wpc, incoming, pumpFrame>>

\* WritePump: a write of a message or of a ping returns an error; the pump
\* returns.
WritePumpFail(c) ==
  /\ ~crashed /\ wpc[c] = "run" /\ conn[c] # "new"
  /\ wpc' = [wpc EXCEPT ![c] = "failed"]
  /\ UNCHANGED <<rpc, incoming, sendQ, pumpFrame>>

\* A variant of SendDrained that takes an empty channel for a closed one.
SendEmpty(c) == sendQ[c] = <<>>

\* A receive from c.Send yields ok false: the channel is closed and the
\* messages buffered before the close have been received.
SendDrained(c) == c \in sendClosed /\ sendQ[c] = <<>>

\* WritePump: case message, ok := <-c.Send with ok false; the pump writes
\* the close frame and returns.
WritePumpClose(c) ==
  /\ ~crashed /\ wpc[c] = "run"
  /\ SendDrained(c)
  /\ wpc' = [wpc EXCEPT ![c] = "closed"]
  /\ UNCHANGED <<rpc, incoming, sendQ, pumpFrame>>

NextConn ==
  \/ \E c \in LobbyClients : ReadFrame(c)
  \/ \E c \in LobbyClients : ReadError(c)
  \/ \E c \in LobbyClients : HubUnregister(c)
  \/ HubIncoming
  \/ FindRoomReturn
  \/ \E role \in Roles : HandleSelectTeamSent(role)
  \/ removePlayer
  \/ \E c \in LobbyClients : WritePumpSend(c)
  \/ \E c \in LobbyClients : WritePumpFail(c)
  \/ \E c \in LobbyClients : WritePumpClose(c)

\* The Hub's select takes a ready case at random, so a ReadPump that waits
\* at Unregister is served; the Hub's handlers and the WritePumps keep
\* running.
SpecConn ==
  /\ InitConn /\ [][NextConn]_vars
  /\ \A c \in LobbyClients : SF_vars(HubUnregister(c))
  /\ WF_vars(FindRoomReturn)
  /\ WF_vars(removePlayer)
  /\ WF_vars(\E role \in Roles : HandleSelectTeamSent(role))
  /\ \A c \in LobbyClients :
       WF_vars(WritePumpSend(c) \/ WritePumpFail(c) \/ WritePumpClose(c))

\* ---- a game in progress: the locks ---------------------------------------
\* The loop of the game, the Hub with movement requests always at hand, and
\* a StopGame call from outside.
NextLocks ==
  \/ \E c \in Movers : HubBegin("player_move", c)
  \/ FindRoomReturn
  \/ HandlePlayerMove(NearJail)
  \/ \E result \in Results : StopGameCall(result)
  \/ \E l \in Loops : LoopStop(l)
  \/ \E l \in Loops : TickLock(l)
  \/ \E l \in Loops : TickBody(l)
  \/ \E l \in Loops : TickCheck(l)

\* sync.RWMutex serves every goroutine that waits for it (a waiting Lock
\* holds back new readers, a Lock waiting for 1 ms is handed the mutex), so
\* the steps that take a lock are strongly fair; every goroutine keeps
\* running.
SpecLocks ==
  /\ InitTick /\ [][NextLocks]_vars
  /\ SF_vars(\E c \in Movers : HubBegin("player_move", c))
  /\ WF_vars(FindRoomReturn)
  /\ WF_vars(HandlePlayerMove(NearJail))
  /\ \A l \in Loops : SF_vars(TickLock(l) \/ LoopStop(l))
  /\ \A l \in Loops : WF_vars(TickBody(l))
  /\ \A l \in Loops : SF_vars(TickCheck(l))

\* ---- a game in progress: the tick's broadcast as a step of its own -------
\* The ticker case up to r.mu.Unlock; the snapshot the loop built under the
\* lock waits in bmsg for the broadcast.
TickSection(l) ==
  /\ TickSectionAt(l, "cast", FALSE)
  /\ bmsg' = GameStateMsg(remainingTime')
  /\ UNCHANGED <<sendQ, btodo, lastSend, dirVars, connVars>>

\* r.BroadcastMessage(msg) of the snapshot built before the unlock.
TickCast(l) ==
  /\ ~crashed /\ lpc[l] = "cast" /\ CanRLock(l)
  /\ lpc' = [lpc EXCEPT ![l] = "check"]
  /\ crashed' = BroadcastPanics(Players, clients)
  /\ sendQ' = IF crashed' THEN sendQ
              ELSE BroadcastTo(RoomClients, bmsg)
  /\ bmsg' = "none"
  /\ UNCHANGED <<roomVars, hubVars, ltimer, llist, holds, now, btodo,
                 lastSend, dirVars, connVars, nextId, histVars>>

\* StopGame called by a task other than a gameLoop, with the queues: a call
\* that proceeds sends game_over to every client.
StopGameSent(result) ==
  /\ StopGameCallCore(result)
  /\ sendQ' = IF gameOverCount' # gameOverCount
              THEN BroadcastTo(RoomClients, GameOverMsg(result))
              ELSE sendQ
  /\ UNCHANGED <<bmsg, btodo, lastSend, dirVars, connVars>>

NextOver ==
  \/ \E result \in Results : StopGameSent(result)
  \/ \E l \in Loops : LoopStop(l)
  \/ \E l \in Loops : TickLock(l)
  \/ \E l \in Loops : TickSection(l)
  \/ \E l \in Loops : TickCast(l)
  \/ \E l \in Loops : TickCheckSend(l)
  \/ \E c \in Clients : WritePump(c)

SpecOver == InitTick /\ [][NextOver]_vars

\* ---- properties ---------------------------------------------------------
\* A step that is the critical section of a tick.
TickStep == \E l \in Loops : lpc[l] = "locked" /\ lpc'[l] = "check"

\* The loops that are running.
ActiveLoops == {l \in Loops : lpc[l] \notin {"off", "done"}}

\* C1: however many StopGame calls are made, by callers outside the loop
\* and by the loops, every game (stop channel) sees at most one
\* Playing->Ended transition, its channel is closed once for that
\* transition and never otherwise, and one game_over broadcast goes with it;
\* while the state is not Playing no step, StopGame included, moves the room
\* to Ended, closes a channel or broadcasts game_over.
C1_StopGameIdempotent ==
  /\ [](\A ch \in Chans :
          /\ endedCount[ch] <= 1
          /\ closeCount[ch] = endedCount[ch]
          /\ gameOverCount[ch] <= endedCount[ch]
          /\ ~crashed => gameOverCount[ch] = endedCount[ch])
  /\ [][State # "playing" =>
          /\ State' = "ended" => State = "ended"
          /\ endedCount' = endedCount
          /\ closeCount' = closeCount
          /\ gameOverCount' = gameOverCount]_vars

\* C1, witness: the first game was ended by an outside caller (result none);
\* its loop, whose timer had expired, called StopGame after that and
\* returned, and the game still counts one transition, one close and one
\* game_over.
C1_SecondStopIsNoOp ==
  /\ stopCh = 1 /\ State = "ended" /\ lastWinner = "none"
  /\ lpc[1] = "done" /\ ltimer[1]
  /\ endedCount[1] = 1 /\ closeCount[1] = 1 /\ gameOverCount[1] = 1

\* C2: at most one gameLoop goroutine of the room is running at any time.
C2_OneGameLoop == Cardinality(ActiveLoops) <= 1

\* C3: the room's State changes only Waiting->Playing, Playing->Ended and
\* Ended->Waiting.
C3_LifecycleOrder ==
  [][\/ State' = State
     \/ <<State, State'>> \in {<<"waiting", "playing">>,
                               <<"playing", "ended">>,
                               <<"ended", "waiting">>}]_vars

\* C4: every write to room state is made under the room's write lock.
C4_WritesUnderLock == lastWrite \in {"none", "locked"}

\* C5: no task holds two locks at the same time.
C5_OneLockAtATime == \A t \in Tasks : Cardinality(holds[t]) <= 1

\* C6: a tick adds exactly one tick interval to the arrest gauge of a free
\* thief who is within arrest range of one or more police.
C6_OneTickCredit ==
  [][TickStep =>
       \A i \in Players :
         (/\ obj[i].Role = "thief" /\ IsFree(obj[i])
          /\ \E j \in Players : /\ obj[j].Role = "police"
                                /\ InArrestRange(obj[j], obj[i]))
         => obj'[i].ArrestGauge = obj[i].ArrestGauge + 1]_vars

\* No police is within arrest range of player i.
NoContact(i) ==
  \A j \in Players : obj[j].Role = "police" => ~InArrestRange(obj[j], obj[i])

\* C7: no step lowers a player's arrest gauge, and a tick in which no police
\* is within arrest range of a player leaves that player's gauge as it was.
C7_ArrestGaugeMonotonic ==
  [][\A i \in Ids :
       /\ obj'[i].ArrestGauge >= obj[i].ArrestGauge
       /\ (TickStep /\ i \in Players /\ NoContact(i))
            => obj'[i].ArrestGauge = obj[i].ArrestGauge]_vars

\* C7, witness: the last tick found a free thief in no arrest pair, and the
\* thief still has the gauge gathered before.
C7_KeptWithoutContact ==
  \E i \in lastTick.list :
    /\ obj[i].Role = "thief" /\ IsFree(obj[i])
    /\ lastTick.credit[i] = 0 /\ obj[i].ArrestGauge >= 1

\* C8: an arrested player stops being arrested only in a tick in which a
\* free thief's rescue gauge reaches the rescue duration.
C8_DetainedUntilRescue ==
  [][\A i \in Ids :
       (IsArrested(obj[i]) /\ ~IsArrested(obj'[i]))
         => (TickStep /\ lastTick'.completed # {})]_vars

\* C8, witness: the game's timer expired (thieves win) after a tick that
\* completed no rescue, and a thief arrested before that tick is still
\* arrested.
C8_StillDetained ==
  /\ State = "ended" /\ lastWinner = "thief" /\ lastTick.completed = {}
  /\ \E i \in lastTick.list : IsArrested(obj[i]) /\ i \notin lastTick.arrested

\* C9: after a tick, a free thief who was outside the jail's range has rescue
\* gauge zero; a rescue candidate's gauge is the number of ticks in a row in
\* which it has been a candidate, and a rescue completes only at
\* RescueDuration / dt of them.
C9_RescueContinuity ==
  [][TickStep =>
       /\ \A i \in Players :
            (/\ obj'[i].Role = "thief" /\ IsFree(obj'[i])
             /\ ~InJailRange(obj[i], JailX, JailY))
            => obj'[i].RescueGauge = 0
       /\ \A i \in lastTick'.rescuing :
            obj'[i].RescueGauge = IF i \in lastTick'.completed THEN 0
                                  ELSE lastTick'.streak[i]
       /\ \A i \in lastTick'.completed :
            lastTick'.streak[i] >= RescueTicks]_vars

\* C9, witness: the last tick zeroed the gauge of a free thief who had
\* gathered rescue progress and then stood outside the jail's range.
C9_GaugeRestarted ==
  /\ lastTick.reset # {}
  /\ \A i \in lastTick.reset : IsFree(obj[i]) /\ obj[i].RescueGauge = 0

\* C10: in a tick in which a rescue completes, no thief of the room is left
\* arrested and the rescuer's gauge is zero.
C10_RescueFreesAll ==
  [][(TickStep /\ lastTick'.completed # {}) =>
       /\ \A i \in Players : obj'[i].Role = "thief" => ~IsArrested(obj'[i])
       /\ \A i \in lastTick'.completed : obj'[i].RescueGauge = 0]_vars

\* C10, witness: the last tick completed a rescue and released two or more
\* arrested thieves, who are free.
C10_TwoReleased ==
  /\ lastTick.completed # {}
  /\ Cardinality(lastTick.released) >= 2
  /\ \A i \in lastTick.released : IsFree(obj[i])

\* A step that is the win check of a tick, made by loop l.
WinCheckStep(l) == lpc[l] = "check" /\ lpc'[l] # "check"

\* The room has a thief and every thief of the room is arrested.
AllThievesDetained ==
  /\ \E i \in Players : obj[i].Role = "thief"
  /\ \A i \in Players : obj[i].Role = "thief" => IsArrested(obj[i])

\* C11: the win check of a tick made while the room is Playing ends the game
\* with winner police if and only if the room has a thief and all its
\* thieves are arrested, whether or not the timer expired in that tick.
C11_PoliceWinFirst ==
  [][\A l \in Loops :
       (WinCheckStep(l) /\ State = "playing")
         => ((State' = "ended" /\ lastWinner' = "police")
               <=> AllThievesDetained)]_vars

\* A game that ended with winner police in the tick in which its timer
\* expired.
C11_PoliceBeatsTimer ==
  /\ State = "ended" /\ lastWinner = "police"
  /\ \E l \in Loops : lpc[l] = "done" /\ ltimer[l]
  /\ remainingTime <= 0

\* C12: a game ends with winner thief only by the win check of a tick in
\* which the timer expired, and only when a thief that is not arrested is in
\* the room.
C12_ThiefWinNeedsFreeThief ==
  [][(State = "playing" /\ State' = "ended" /\ lastWinner' = "thief")
       => /\ \E l \in Loops : WinCheckStep(l) /\ ltimer[l]
          /\ \E i \in Players :
               obj[i].Role = "thief" /\ ~IsArrested(obj[i])]_vars

\* The readiness rule on the objects o of the players ps: at least two
\* players, each ready and in a team, and both teams present.
ReadinessRule(o, ps) ==
  /\ Cardinality(ps) >= 2
  /\ \A i \in ps : o[i].Ready = TRUE /\ o[i].Role \in {"police", "thief"}
  /\ \E i \in ps : o[i].Role = "police"
  /\ \E i \in ps : o[i].Role = "thief"

\* C13: a SetPlayerReady(id, ready) call sets the flag of player id, if the
\* room has it, and nothing else, and returns true if and only if the room
\* as the call leaves it satisfies the readiness rule; flag and check are
\* one step.
C13_ReadyIffRule ==
  [][(lastOut'.op = "SetPlayerReady" /\ Players' = Players)
       => /\ \E id \in Ids, ready \in BOOLEAN :
               obj' = [i \in Ids |-> IF i = id /\ i \in Players
                                     THEN [obj[i] EXCEPT !.Ready = ready]
                                     ELSE obj[i]]
          /\ lastOut'.ret = (IF ReadinessRule(obj', Players') THEN "true"
                             ELSE "false")]_vars

\* SetPlayerReady has returned true for a room of three.
C13_ReturnedTrue ==
  /\ lastOut.op = "SetPlayerReady" /\ lastOut.ret = "true"
  /\ Cardinality(Players) = 3
  /\ \A i \in Players : obj[i].Ready

\* C14: a step that takes the room into Playing (a PrepareGame, which makes
\* a new stop channel) leaves a room that satisfies the readiness rule.
C14_PlayingOnlyWhenReady ==
  [][(State' = "playing" /\ stopCh' # stopCh)
       => ReadinessRule(obj', Players')]_vars

\* The player_ready flow has started the first game of a room of three.
C14_GameStarted ==
  /\ State = "playing" /\ stopCh = 1 /\ Cardinality(Players) = 3
  /\ lastOut.op = "player_ready" /\ lastOut.bcast = "game_start"

\* A step that is the select_team handler, after its room lookup.
SelectTeamStep == hpc = "found" /\ hcur.op = "select_team" /\ hpc' = "idle"

\* C18: a room never has more than two police, and a select_team request
\* for police made while the room has two police is answered 'team is full'
\* and changes nobody's team.
C18_PoliceAtMostTwo ==
  /\ [](Cardinality({i \in Players : obj[i].Role = "police"}) <= 2)
  /\ [][(/\ SelectTeamStep /\ hfound /\ lastOut'.arg = "police"
          /\ Cardinality({i \in Players : obj[i].Role = "police"}) >= 2)
         => /\ lastOut'.reply = "team is full"
            /\ lastOut'.bcast = "none"
            /\ \A i \in Ids : obj'[i].Role = obj[i].Role]_vars

\* A third request for police has been refused.
C18_ThirdPoliceRefused ==
  /\ lastOut.op = "select_team" /\ lastOut.arg = "police"
  /\ lastOut.reply = "team is full"
  /\ Cardinality({i \in Players : obj[i].Role = "police"}) = 2
  /\ \E i \in Players : obj[i].Role # "police"

\* C15: once the room's stop channel is closed no loop runs the critical
\* section of a tick: the countdown, the gauges and the statuses stay as
\* they are and no game_state goes out.
C15_NoTickAfterStop ==
  [][TickStep => (stopCh # 0 /\ closeCount[stopCh] = 0)]_vars

\* C16: the SendMessage of a broadcast in progress can always be taken,
\* whatever the buffers hold; on a full buffer it drops the message and
\* leaves every buffer as it is; and a broadcast that has begun ends, with
\* no WritePump step required.
C16_SendNeverBlocks ==
  /\ [](\A c \in btodo : ENABLED SendMessage(c))
  /\ [][\A c \in Clients :
          (c \in btodo /\ c \notin btodo' /\ Len(sendQ[c]) >= SendCap)
            => (sendQ' = sendQ /\ lastSend' = [c |-> c, sent |-> FALSE])]_vars
  /\ ((bmsg # "none") ~> (bmsg = "none"))

\* A broadcast has ended after dropping a message for a full buffer.
C16_DroppedOnFull ==
  /\ bmsg = "none" /\ lastSend.c # 0 /\ lastSend.sent = FALSE
  /\ Len(sendQ[lastSend.c]) = SendCap

\* C17: an AddPlayer call on a room of MaxPlayers players returns false and
\* leaves the room's Players, clients and HostID as they are, and no room
\* ever holds more than MaxPlayers players.
C17_FullRoomRefuses ==
  /\ [](\A k \in Codes : Cardinality(rooms[k].Players) \in 0..MaxPlayers)
  /\ [][\A k \in Codes :
          (/\ lastOut'.op = "AddPlayer" /\ lastOut'.arg = k
           /\ Cardinality(rooms[k].Players) >= MaxPlayers)
            => (lastOut'.ret = "false" /\ rooms'[k] = rooms[k])]_vars

\* AddPlayer has returned false on a room of MaxPlayers players.
C17_NinthRefused ==
  /\ lastOut.op = "AddPlayer" /\ lastOut.ret = "false"
  /\ Cardinality(rooms[lastOut.arg].Players) = MaxPlayers

\* C19: no player id is in the Players of two rooms of the directory.
C19_OneRoomPerId ==
  \A k1, k2 \in Codes :
    (k1 # k2 /\ rooms[k1].in /\ rooms[k2].in)
      => rooms[k1].Players \cap rooms[k2].Players = {}

\* A connection that joined room 1 has created room 2 since: the player it
\* left behind is still in room 1, its present player is in room 2.
C19_TwoRoomsInUse ==
  /\ \A k \in Codes : rooms[k].in
  /\ \E c \in DirClients, id \in rooms[1].Players :
       /\ rooms[1].clients[id] = c /\ dirMap[c] # id
       /\ dirMap[c] \in rooms[2].Players

\* The step in which HandlePlayerMove handles the request in hand.
PlayerMoveStep == hpc = "found" /\ hcur.op = "player_move" /\ hpc' = "idle"

\* C20: HandlePlayerMove for a player whose room is not Playing replies
\* 'game is not in progress', writes no player and broadcasts nothing.
C20_MoveNeedsPlaying ==
  [][(PlayerMoveStep /\ hfound /\ State # "playing")
       => (/\ lastOut'.op = "player_move"
           /\ lastOut'.reply = "game is not in progress"
           /\ lastOut'.bcast = "none"
           /\ obj' = obj)]_vars

\* A move was turned away in a room whose game has ended.
C20_MoveAfterEnd ==
  /\ State = "ended" /\ lastOut.op = "player_move"
  /\ lastOut.reply = "game is not in progress"

\* The farthest a player last updated at instant t may have moved by now:
\* MoveSpeed x elapsed x 1.5, elapsed being one tick if t is the zero time.
SpeedLimit(t) ==
  LET ticks == IF t = 0 THEN 1 ELSE (now - t) * ClockStepTicks
  IN  (3 * MoveSpeed * ticks) \div (2 * TickRate)

\* Is the clamped position of request q within the speed limit of player p?
WithinSpeedLimit(p, q) ==
  LET c == ClampPosition(q)
  IN  (p.X - c.x) * (p.X - c.x) + (p.Y - c.y) * (p.Y - c.y)
        <= SpeedLimit(p.LastMoveTime) * SpeedLimit(p.LastMoveTime)

\* C21: in a Playing room HandlePlayerMove accepts the request of a player
\* exactly when the clamped position is within the speed limit of the
\* player's position; accepted, it stores the clamped position and the
\* present time and broadcasts player_move; refused, it replies 'movement
\* too fast' and leaves the player as it is.
C21_SpeedLimit ==
  [][(PlayerMoveStep /\ hfound /\ State = "playing" /\ Pid \in Players)
       => IF WithinSpeedLimit(obj[Pid], lastOut'.arg)
          THEN /\ obj' = [obj EXCEPT
                            ![Pid].X = ClampPosition(lastOut'.arg).x,
                            ![Pid].Y = ClampPosition(lastOut'.arg).y,
                            ![Pid].LastMoveTime = now]
               /\ lastOut'.reply = "none" /\ lastOut'.bcast = "player_move"
          ELSE /\ obj' = obj
               /\ lastOut'.reply = "movement too fast"
               /\ lastOut'.bcast = "none"]_vars

\* A player fresh from the spawn has moved 22 px, within the 30 px of one
\* tick, and a farther request of another was refused at the same instant.
C21_FirstMoveAccepted ==
  /\ now = 1
  /\ \E i \in Players : /\ obj[i].Y = InJail.y /\ obj[i].LastMoveTime = 1
  /\ lastOut.op = "player_move" /\ lastOut.reply = "movement too fast"

\* Is position q on the map, a player's radius off its edges?
OnMap(q) ==
  /\ q.x >= PlayerRadius /\ q.x <= MapWidth - PlayerRadius
  /\ q.y >= PlayerRadius /\ q.y <= MapHeight - PlayerRadius

\* Is position c the position of the map nearest to q on either axis?
NearestOnMap(c, q) ==
  /\ OnMap(c)
  /\ (q.x >= PlayerRadius /\ q.x <= MapWidth - PlayerRadius) => c.x = q.x
  /\ (q.y >= PlayerRadius /\ q.y <= MapHeight - PlayerRadius) => c.y = q.y
  /\ q.x < PlayerRadius => c.x = PlayerRadius
  /\ q.x > MapWidth - PlayerRadius => c.x = MapWidth - PlayerRadius
  /\ q.y < PlayerRadius => c.y = PlayerRadius
  /\ q.y > MapHeight - PlayerRadius => c.y = MapHeight - PlayerRadius

\* C22: the position an accepted move stores is on the map and is the
\* requested one brought to the map's nearest edge; a request off the map
\* is refused for its speed only; ClampPosition leaves a position it
\* returned, and the position of every player, as it is.
C22_ClampedToMap ==
  /\ [][(PlayerMoveStep /\ hfound /\ State = "playing" /\ Pid \in Players)
          => /\ lastOut'.bcast = "player_move"
                  => NearestOnMap(Pos(obj'[Pid].X, obj'[Pid].Y), lastOut'.arg)
             /\ lastOut'.reply \in {"none", "movement too fast"}
             /\ (~OnMap(lastOut'.arg)
                   /\ WithinSpeedLimit(obj[Pid], lastOut'.arg))
                  => lastOut'.bcast = "player_move"]_vars
  /\ [](\A q \in MoveTargets :
          /\ OnMap(ClampPosition(q))
          /\ ClampPosition(ClampPosition(q)) = ClampPosition(q))
  /\ [](\A i \in Players :
          ClampPosition(Pos(obj[i].X, obj[i].Y)) = Pos(obj[i].X, obj[i].Y))

\* A request west of the map was accepted and put the player on the edge.
C22_ClampedWest ==
  /\ lastOut.op = "player_move" /\ lastOut.arg = OffMapWest
  /\ lastOut.bcast = "player_move"
  /\ \E i \in Players : obj[i].X = PlayerRadius /\ obj[i].Y = OffMapWest.y

\* C23: the code CreateRoom returns is the code of no room the directory
\* held, and every room the directory held is still in it, unchanged.
C23_FreshRoomCode ==
  [][\A k \in Codes :
       (lastOut'.op = "create_room" /\ lastOut'.arg = k /\ dirNext' # dirNext)
         => (/\ ~rooms[k].in
             /\ \A j \in Codes : rooms[j].in => rooms'[j] = rooms[j])]_vars

\* C24: a leave_room or disconnect that takes the last player of a room
\* takes the room out of the directory in the same handler, and the
\* directory holds no room without players.
C24_EmptyRoomRemoved ==
  /\ [][\A k \in Codes :
          (/\ lastOut'.op \in {"leave_room", "disconnect"}
           /\ rooms[k].in /\ rooms'[k].Players # rooms[k].Players
           /\ rooms'[k].Players = {})
            => ~rooms'[k].in]_vars
  /\ [](\A k \in Codes : rooms[k].in => rooms[k].Players # {})

\* The only player of room 2 has left and the room is gone.
C24_LastOneLeft ==
  /\ lastOut.op \in {"leave_room", "disconnect"} /\ lastOut.arg = 2
  /\ lastOut.bcast = "none" /\ rooms[2] = NoRoom /\ rooms[1].in

\* C25: in the tick that detains a thief the thief's position becomes the
\* jail location (JailX, JailY).
C25_DetainedAtJail ==
  [][\A i \in Players :
       (obj[i].Role = "thief" /\ ~IsArrested(obj[i]) /\ IsArrested(obj'[i]))
         => (obj'[i].X = JailX /\ obj'[i].Y = JailY)]_vars

\* C26: a thief's ArrestGauge is zero after the step that detains the thief,
\* and only such a step (Reset aside) lowers it.
C26_GaugeResetOnArrest ==
  [][\A i \in Players :
       obj[i].Role = "thief"
         => /\ (~IsArrested(obj[i]) /\ IsArrested(obj'[i]))
                 => obj'[i].ArrestGauge = 0
            /\ obj'[i].ArrestGauge < obj[i].ArrestGauge
                 => (~IsArrested(obj[i]) /\ IsArrested(obj'[i]))]_vars

\* The step in which a loop runs the body of a tick and broadcasts its
\* snapshot.
SnapshotStep == \E l \in Loops : lpc[l] = "locked" /\ lpc'[l] = "check"

\* C27 as stated: every tick leaves its snapshot in the queue of every
\* client of the room.
C27_SnapshotEveryTick ==
  [][SnapshotStep
       => \A c \in RoomClients :
            sendQ'[c] = Append(sendQ[c], GameStateMsg(remainingTime'))]_vars

\* C27, amended: a tick puts its snapshot, and nothing else, at the tail of
\* the queue of every client whose queue has room, and leaves a full queue
\* as it is; a queue grows by a snapshot in no other step; the snapshots in
\* a queue are in tick order, with remaining times that decrease from one
\* to the next, are not negative and are not below the room's.
C27_SnapshotsInTickOrder ==
  /\ [][SnapshotStep
          => /\ remainingTime' = remainingTime - 1
             /\ \A c \in RoomClients :
                  sendQ'[c] = IF Len(sendQ[c]) < SendCap
                              THEN Append(sendQ[c], GameStateMsg(remainingTime'))
                              ELSE sendQ[c]]_vars
  /\ [][\A c \in Clients :
          (/\ Len(sendQ'[c]) > Len(sendQ[c])
           /\ sendQ'[c][Len(sendQ'[c])].type = "game_state")
            => SnapshotStep]_vars
  /\ [](\A c \in Clients : \A i, j \in 1..Len(sendQ[c]) :
          (sendQ[c][i].type = "game_state")
            => /\ sendQ[c][i].remaining >= 0
               /\ sendQ[c][i].remaining >= remainingTime
               /\ (i < j /\ sendQ[c][j].type = "game_state")
                    => sendQ[c][i].remaining > sendQ[c][j].remaining)

\* A client that reads nothing holds the snapshots of the first ticks in
\* order; the snapshot of the last tick found its queue full.
C27_LateSnapshotDropped ==
  /\ remainingTime = 0
  /\ \E c \in RoomClients :
       /\ Len(sendQ[c]) = SendCap
       /\ sendQ[c][1] = GameStateMsg(TicksLeft - 1)
       /\ sendQ[c][SendCap].type = "game_state"
       /\ sendQ[c][SendCap].remaining > 0

GuardedTypes == FrameTypes \ {"authenticate"}
C29_AuthGuard ==
  /\ [][\A c \in LobbyClients :
          /\ \A t \in GuardedTypes :
               HandleMessage(c, t) /\ ~Authenticated[c] =>
                 /\ lastOut' = Out(t, "none", "authentication required",
                                   "none")
                 /\ UNCHANGED <<roomVars, playerMap, hpc, hcur, dirVars,
                                nextId, authVars>>
          /\ HandleMessage(c, "authenticate") /\ Authenticated[c] =>
               /\ lastOut'.reply = "already authenticated"
               /\ UNCHANGED <<AccountID, Authenticated>>]_vars
  /\ [](hpc # "idle" /\ hcur.op # "disconnect" => Authenticated[hcur.c])

\* A connection that has not authenticated was refused while a room, made by
\* one that has, exists.
C29_RefusedBesideRoom ==
  /\ lastOut.reply = "authentication required" /\ lastOut.op = "join_room"
  /\ inDir /\ Players # {}
  /\ \E c \in LobbyClients : conn[c] = "live" /\ ~Authenticated[c]

\* The step in which a loop whose timer expired, with no police win, makes
\* its win check while the room is Playing.
TimerExpiryStep ==
  \E l \in Loops : /\ WinCheckStep(l) /\ State = "playing"
                   /\ ltimer[l] /\ ~CheckPoliceWin(obj, llist[l])

\* The countdown: a tick takes one TickInterval off the remaining time, no
\* other step changes it, and the room is Playing with no time left only
\* between the countdown of a tick and that tick's win check.
CountdownToExpiry ==
  /\ [][SnapshotStep => remainingTime' = remainingTime - 1]_vars
  /\ [][remainingTime' # remainingTime => SnapshotStep]_vars
  /\ [](State = "playing"
          => \/ remainingTime > 0
             \/ remainingTime = 0 /\ \E l \in Loops : lpc[l] = "check")

\* The loop, kept running, ends the game: by a police win, or by the thieves'
\* win in the tick that brought the remaining time to zero.
EndsAtExpiry ==
  <>(/\ State = "ended"
     /\ \/ lastWinner = "police"
        \/ lastWinner = "thief" /\ remainingTime = 0)

\* C30 as stated: the game ends, as the thieves' win when no police win came
\* first, in the first tick that leaves no time, TicksLeft ticks after the
\* time was set, and that tick leaves game_over with winner thief in the
\* queue of every client of the room.
C30_TimerExpiry ==
  /\ CountdownToExpiry
  /\ EndsAtExpiry
  /\ [][TimerExpiryStep
          => /\ State' = "ended" /\ lastWinner' = "thief"
             /\ remainingTime = 0
             /\ \A c \in RoomClients :
                  sendQ'[c] = Append(sendQ[c], GameOverMsg("thief"))]_vars

\* C30, amended: the same, but game_over is left in the queue of every
\* client whose queue has room; a full queue stays as it is.
C30_TimerExpiryQueued ==
  /\ CountdownToExpiry
  /\ EndsAtExpiry
  /\ [][TimerExpiryStep
          => /\ State' = "ended" /\ lastWinner' = "thief"
             /\ remainingTime = 0
             /\ \A c \in RoomClients :
                  sendQ'[c] = IF Len(sendQ[c]) < SendCap
                              THEN Append(sendQ[c], GameOverMsg("thief"))
                              ELSE sendQ[c]]_vars

\* The timer ended the game: a client that read its snapshots holds
\* game_over with winner thief, one that read nothing holds snapshots only.
C30_ThievesOutlastedTimer ==
  /\ State = "ended" /\ lastWinner = "thief" /\ remainingTime = 0
  /\ \E c \in RoomClients :
       /\ sendQ[c] # <<>>
       /\ sendQ[c][Len(sendQ[c])] = GameOverMsg("thief")
  /\ \E c \in RoomClients :
       /\ Len(sendQ[c]) = SendCap
       /\ \A i \in 1..SendCap : sendQ[c][i].type = "game_state"

\* Thief i is free and in arrest range of a police.
InContact(o, i) ==
  /\ o[i].Role = "thief" /\ IsFree(o[i])
  /\ \E j \in Ids : o[j].Role = "police" /\ InArrestRange(o[j], o[i])

\* C31: one call of ProcessArrests adds one dt to the progress of each free
\* thief in arrest range of a police and changes no other player; it
\* returns one event for each thief whose progress is at the threshold
\* after the call's dt, none for anyone else, and each event names a police
\* in range of its thief; the thieves of the events are detained.
C31_OneDtPerContact ==
  [][lastOut'.op = "ProcessArrests" =>
       LET ev == lastOut'.ret
           hits(i) == {k \in 1..Len(ev) : ev[k].ThiefID = i}
       IN  /\ \A i \in Ids :
                IF InContact(obj, i)
                THEN /\ obj'[i].ArrestGauge = obj[i].ArrestGauge + 1
                     /\ Cardinality(hits(i)) =
                          (IF obj'[i].ArrestGauge >= ArrestTicks THEN 1 ELSE 0)
                     /\ IsArrested(obj'[i]) <=> hits(i) # {}
                ELSE obj'[i] = obj[i] /\ hits(i) = {}
           /\ \A k \in 1..Len(ev) :
                /\ obj[ev[k].PoliceID].Role = "police"
                /\ InArrestRange(obj[ev[k].PoliceID], obj[ev[k].ThiefID])]_vars

\* A call found two police in range of a thief one dt short of the
\* threshold: one dt added, one event.
C31_TwoPoliceOneDt ==
  /\ lastOut.op = "ProcessArrests" /\ Len(lastOut.ret) = 1
  /\ \E i \in Ids :
       /\ lastOut.ret[1].ThiefID = i /\ lastOut.ret[1].PoliceID = 1
       /\ obj[i].ArrestGauge = ArrestTicks /\ IsArrested(obj[i])
       /\ Cardinality({j \in Ids : /\ obj[j].Role = "police"
                                   /\ InArrestRange(obj[j], obj[i])}) = 2

\* C32: the host of a room with players is one of its players; AddPlayer
\* makes the player it adds to an empty room the host and leaves the host
\* of any other room alone; RemovePlayer of the host, with players left,
\* makes one of them the host, of another player leaves the host alone, and
\* of an id that is not in the room leaves the room as it is.
C32_HostIsParticipant ==
  /\ [](\A k \in Codes :
          rooms[k].in /\ rooms[k].Players # {}
            => rooms[k].HostID \in rooms[k].Players)
  /\ [][\A k \in Codes :
          /\ \A c \in DirClients :
               AddPlayerCall(k, c) =>
                 rooms'[k].HostID = IF rooms[k].Players = {} THEN NewPlayerID
                                    ELSE rooms[k].HostID
          /\ \A id \in DirIds :
               RemovePlayerOf(k, id) =>
                 /\ id \notin rooms[k].Players => rooms'[k] = rooms[k]
                 /\ (id # rooms[k].HostID \/ rooms[k].Players \subseteq {id})
                      => rooms'[k].HostID = rooms[k].HostID
                 /\ rooms'[k].Players # {}
                      => rooms'[k].HostID \in rooms'[k].Players]_vars

\* The first host of the room was removed and another player is the host;
\* the room took a player in since.
C32_HostHandedOn ==
  /\ lastOut.op = "RemovePlayer"
  /\ 1 \notin rooms[1].Players /\ rooms[1].Players # {}
  /\ rooms[1].HostID \in rooms[1].Players
  /\ \E i \in rooms[1].Players : i > Seated

\* The Hub has processed the unregister of connection c: c is out of
\* Hub.Clients, its Send channel is closed, and OnDisconnect has taken its
\* player out of the room and out of the router's map.
UnregisterProcessed(c) ==
  /\ c \notin hubClients /\ c \in sendClosed
  /\ playerMap[c] = 0 /\ \A i \in Players : clients[i] # c

C36_NoFrameAfterUnregister ==
  [][\A c \in LobbyClients :
       (hcur'.c = c /\ hcur'.op = "select_team" /\ hcur # hcur')
         => c \in hubClients]_vars

SentToClosed ==
  /\ ~crashed /\ crashed'
  /\ \E i \in Players' : clients'[i] \in sendClosed

\* C35: no step sends on a client's Send channel after the Hub closed it:
\* from the close in the unregister case to the removal of the client's
\* player from the room, no game_state, game_over or room_info broadcast goes
\* to the client.
C35_NoSendAfterClose == [][~SentToClosed]_vars


\* C38: after HandleDisconnect has run for a connection no room of the
\* directory has a player whose connection it is, whatever create_room and
\* join_room requests the connection made before.
C38_NoReferenceAfterDisconnect ==
  [][\A c \in DirClients :
       (lastOut'.op = "disconnect" /\ dirMap[c] # 0 /\ dirMap'[c] = 0)
         => \A k \in Codes : rooms'[k].in
              => \A i \in rooms'[k].Players : rooms'[k].clients[i] # c]_vars


\* C39: the step that takes the room out of the directory because its last
\* player left, while the room is Playing, stops the room's gameLoop: the
\* stop channel is closed and the state is Ended.
C39_RemovedRoomStopped ==
  [][(inDir /\ ~inDir' /\ State = "playing")
       => (State' = "ended" /\ closeCount'[stopCh] > 0)]_vars


\* C40: a detained player stays where it is: no step changes the position
\* of a player that is detained before and after it, a player_move of the
\* player included.
C40_DetainedStaysPut ==
  [][\A i \in Players :
       (IsArrested(obj[i]) /\ IsArrested(obj'[i]))
         => (obj'[i].X = obj[i].X /\ obj'[i].Y = obj[i].Y)]_vars


\* A step that puts a game_state at the tail of a client's queue.
SnapshotEnqueued ==
  \E c \in Clients :
    /\ Len(sendQ'[c]) > Len(sendQ[c])
    /\ sendQ'[c][Len(sendQ'[c])].type = "game_state"

\* C37: once the game_over of a game has been broadcast no game_state of
\* that game is put in a client's queue, a StopGame called by another task
\* between a tick's unlock and its broadcast included.
C37_NoSnapshotAfterGameOver ==
  [][SnapshotEnqueued => gameOverCount[stopCh] = 0]_vars
====
